---- MODULE Spec2Model ----
(***************************************************************************)
(* Slide2Thesis: the seven-stage pipeline of main.process_pdf, its stages  *)
(* and the pure helpers they rest on.                                      *)
(*                                                                         *)
(* Text is modelled as sequences of one-character strings, so that         *)
(* splitting, prefix tests, regular-expression scans and key spellings are *)
(* computed character by character as the Python code computes them.       *)
(* File names are TLA+ strings built by concatenation, and the working     *)
(* directory (the debug folder) is a function from file name to content.   *)
(***************************************************************************)
EXTENDS Integers, Sequences, FiniteSets, TLC

VARIABLES
    files,      \* the debug folder: file name -> content (a character sequence)
    call,       \* the last direct call of a helper: its arguments and its return value
    args,       \* process_pdf: the arguments of the running invocation
    pc,         \* process_pdf: where the orchestrator stands
    started,    \* process_pdf: the stages started by this invocation, in order
    pool,       \* the running stage's worker pool: task -> state
    result,     \* the stages' results of this invocation: stage -> what it returned
    global_figure_ids,  \* FigureGenerator: the registry "chapter:filename" -> figure id
    workers     \* the figure stage's chapter tasks inside _update_chapter_figures

pipeline_vars == <<args, pc, started, pool, result>>
unit_vars == <<files, call>>
figure_vars == <<global_figure_ids, workers>>
vars == <<files, call, args, pc, started, pool, result, global_figure_ids, workers>>

\* No chapter is being given its figures.
FiguresIdle ==
    /\ global_figure_ids = <<>>
    /\ workers = <<>>

\* process_pdf is not running.
PipelineIdle ==
    /\ args = [run_all |-> TRUE, flags |-> {}, threads |-> 1]
    /\ pc = "idle"
    /\ started = <<>>
    /\ pool = <<>>
    /\ result = <<>>

(***************************************************************************)
(* Characters and strings                                                  *)
(***************************************************************************)
Digits == {"0", "1", "2", "3", "4", "5", "6", "7", "8", "9"}

DigitVal(ch) ==
    CASE ch = "0" -> 0 [] ch = "1" -> 1 [] ch = "2" -> 2 [] ch = "3" -> 3
      [] ch = "4" -> 4 [] ch = "5" -> 5 [] ch = "6" -> 6 [] ch = "7" -> 7
      [] ch = "8" -> 8 [] ch = "9" -> 9

Whitespace == {" ", "\n"}

\* str.lower() on one character (the letters the model's texts use).
LowerChar(ch) ==
    CASE ch = "A" -> "a" [] ch = "C" -> "c" [] ch = "D" -> "d" [] ch = "E" -> "e"
      [] ch = "H" -> "h" [] ch = "I" -> "i" [] ch = "M" -> "m" [] ch = "N" -> "n"
      [] ch = "O" -> "o" [] ch = "P" -> "p" [] ch = "R" -> "r" [] ch = "S" -> "s"
      [] ch = "T" -> "t" [] ch = "U" -> "u" [] ch = "W" -> "w"
      [] OTHER -> ch

\* str.lower()
Lower(s) == [i \in 1..Len(s) |-> LowerChar(s[i])]

\* str.startswith(prefix): case-sensitive, at position 0.
StartsWith(s, prefix) ==
    /\ Len(s) >= Len(prefix)
    /\ SubSeq(s, 1, Len(prefix)) = prefix

\* str.split(sep) for a one-character separator: "" splits into [""].
RECURSIVE SplitFrom(_, _, _, _, _)
SplitFrom(s, sep, i, cur, acc) ==
    IF i > Len(s) THEN Append(acc, cur)
    ELSE IF s[i] = sep THEN SplitFrom(s, sep, i + 1, <<>>, Append(acc, cur))
    ELSE SplitFrom(s, sep, i + 1, Append(cur, s[i]), acc)

Split(s, sep) == SplitFrom(s, sep, 1, <<>>, <<>>)

\* sep.join(parts)
RECURSIVE Join(_, _)
Join(parts, sep) ==
    IF parts = <<>> THEN <<>>
    ELSE IF Len(parts) = 1 THEN parts[1]
    ELSE parts[1] \o sep \o Join(Tail(parts), sep)

\* re.findall(r'\d+', line): the maximal runs of digits, left to right.
RECURSIVE ScanDigits(_, _, _, _)
ScanDigits(line, i, cur, acc) ==
    IF i > Len(line) THEN (IF cur = <<>> THEN acc ELSE Append(acc, cur))
    ELSE IF line[i] \in Digits THEN ScanDigits(line, i + 1, Append(cur, line[i]), acc)
    ELSE ScanDigits(line, i + 1, <<>>, IF cur = <<>> THEN acc ELSE Append(acc, cur))

FindAllDigits(line) == ScanDigits(line, 1, <<>>, <<>>)

\* int(s) for a string of decimal digits.
RECURSIVE ToInt(_)
ToInt(s) ==
    IF s = <<>> THEN 0
    ELSE 10 * ToInt(SubSeq(s, 1, Len(s) - 1)) + DigitVal(s[Len(s)])

\* sorted(xs, key=int): stable, ascending by numeric value.
RECURSIVE InsertByInt(_, _)
InsertByInt(sorted, x) ==
    IF sorted = <<>> THEN <<x>>
    ELSE IF ToInt(x) < ToInt(sorted[Len(sorted)])
         THEN Append(InsertByInt(SubSeq(sorted, 1, Len(sorted) - 1), x), sorted[Len(sorted)])
         ELSE Append(sorted, x)

RECURSIVE SortedByInt(_)
SortedByInt(xs) ==
    IF xs = <<>> THEN <<>>
    ELSE InsertByInt(SortedByInt(SubSeq(xs, 1, Len(xs) - 1)), xs[Len(xs)])

\* Python's None, and the truth value of an Optional[str] / a collection.
None == <<"<None>">>
Truthy(x) == x # None /\ x # <<>>

\* The elements of a sequence.
Range(s) == {s[i] : i \in 1..Len(s)}

(***************************************************************************)
(* Categories and the persisted file-naming contract                       *)
(***************************************************************************)
\* PageClassifier.categories = ChapterGenerator.categories = ThesisCompiler.chapter_order
categories == <<"introduction", "related works", "methods", "results", "conclusions", "appendix">>

CategorySet == Range(categories)

\* category.lower().replace(' ', '_') on the six category names
FileStem(category) ==
    CASE category = "related works" -> "related_works"
      [] OTHER -> category

SectionFile(category)     == FileStem(category) \o "_section.txt"
ChapterFile(category)     == FileStem(category) \o "_chapter.md"
CitedFile(category)       == FileStem(category) \o "_chapter_cited.md"
WithFiguresFile(category) == FileStem(category) \o "_chapter_with_figures.md"

\* os.path.exists / open(..., 'w').write on the debug folder
Exists(dir, name) == name \in DOMAIN dir
WriteFile(dir, name, content) ==
    [n \in (DOMAIN dir) \cup {name} |-> IF n = name THEN content ELSE dir[n]]
EmptyDir == [n \in {} |-> <<>>]

\* The category names as the characters of a response line are compared with.
CategoryChars(category) ==
    CASE category = "introduction"  -> <<"i","n","t","r","o","d","u","c","t","i","o","n">>
      [] category = "Introduction"  -> <<"I","n","t","r","o","d","u","c","t","i","o","n">>
      [] category = "related works" -> <<"r","e","l","a","t","e","d"," ","w","o","r","k","s">>
      [] category = "methods"       -> <<"m","e","t","h","o","d","s">>
      [] category = "results"       -> <<"r","e","s","u","l","t","s">>
      [] category = "conclusions"   -> <<"c","o","n","c","l","u","s","i","o","n","s">>
      [] category = "appendix"      -> <<"a","p","p","e","n","d","i","x">>

(***************************************************************************)
(* Page Classifier (src/src/processors/page_classifier.py)                 *)
(***************************************************************************)
ExtractedTextFile == "extracted_text.txt"

\* f"*Page {n}*:\n{text}\n\n" for every page, as TextExtractor.extract_text writes it.
PageHeader(num) == <<"*", "P", "a", "g", "e", " ">> \o num \o <<"*", ":">>

\* Iterating a text file: the lines, each with its terminating newline kept.
RECURSIVE FileLinesFrom(_, _, _, _)
FileLinesFrom(s, i, cur, acc) ==
    IF i > Len(s) THEN (IF cur = <<>> THEN acc ELSE Append(acc, cur))
    ELSE IF s[i] = "\n" THEN FileLinesFrom(s, i + 1, <<>>, Append(acc, Append(cur, "\n")))
    ELSE FileLinesFrom(s, i + 1, Append(cur, s[i]), acc)

FileLines(s) == FileLinesFrom(s, 1, <<>>, <<>>)

\* str.strip(), str.rstrip(':')
RECURSIVE LStrip(_)
LStrip(s) == IF s # <<>> /\ s[1] \in Whitespace THEN LStrip(Tail(s)) ELSE s

RECURSIVE RStripChars(_, _)
RStripChars(s, chars) ==
    IF s # <<>> /\ s[Len(s)] \in chars THEN RStripChars(SubSeq(s, 1, Len(s) - 1), chars) ELSE s

Strip(s) == RStripChars(LStrip(s), Whitespace)

\* re.compile(r'\*Page \d+\*:').match(s): anchored at the start of s only.
MatchesPagePattern(s) ==
    \E k \in 1..Len(s) :
        /\ StartsWith(s, <<"*", "P", "a", "g", "e", " ">>)
        /\ k >= 7
        /\ \A j \in 7..k : s[j] \in Digits
        /\ Len(s) >= k + 2
        /\ s[k + 1] = "*"
        /\ s[k + 2] = ":"

\* dict[key] = value
DictPut(d, key, value) ==
    [k \in (DOMAIN d) \cup {key} |-> IF k = key THEN value ELSE d[k]]
EmptyDict == [k \in {} |-> <<>>]

Flatten(lines) == Join(lines, <<>>)

\* The loop of load_extracted_text over the lines of the file.
RECURSIVE LoadLines(_, _, _, _, _)
LoadLines(lines, i, extracted_data, current_page, current_text) ==
    IF i > Len(lines)
    THEN IF Truthy(current_page) /\ current_text # <<>>
         THEN DictPut(extracted_data, current_page, Flatten(current_text))
         ELSE extracted_data
    ELSE IF MatchesPagePattern(Strip(lines[i]))
    THEN LoadLines(lines, i + 1,
                   IF Truthy(current_page) /\ current_text # <<>>
                   THEN DictPut(extracted_data, current_page, Flatten(current_text))
                   ELSE extracted_data,
                   RStripChars(Strip(lines[i]), {":"}), <<>>)
    ELSE IF Truthy(current_page)
    THEN LoadLines(lines, i + 1, extracted_data, current_page, Append(current_text, lines[i]))
    ELSE LoadLines(lines, i + 1, extracted_data, current_page, current_text)

\* The truth value of a dict: None and {} are both false.
DictTruthy(d) == DOMAIN d # {}

\* PageClassifier.load_extracted_text: the page map; None (modelled as the
\* empty dict, which its only caller cannot tell from None) when the file is
\* missing (the caught exception) or holds no page.
load_extracted_text(dir, text_file_path) ==
    IF ~Exists(dir, text_file_path) THEN EmptyDict
    ELSE LoadLines(FileLines(dir[text_file_path]), 1, EmptyDict, None, <<>>)

\* A prefix test that forgets to lower-case the line.
LineStartsWithCategoryCaseSensitive(line, category) ==
    StartsWith(line, Lower(CategoryChars(category)))

\* line.lower().startswith(category.lower())
LineStartsWithCategory(line, category) ==
    StartsWith(Lower(line), Lower(CategoryChars(category)))

\* The loop of _get_target_pages over the lines of the response.
RECURSIVE TargetPagesFrom(_, _, _, _)
TargetPagesFrom(lines, category, i, target_pages) ==
    IF i > Len(lines) THEN target_pages
    ELSE TargetPagesFrom(lines, category, i + 1,
            IF LineStartsWithCategory(lines[i], category)
            THEN target_pages \o FindAllDigits(lines[i])
            ELSE target_pages)

\* PageClassifier._get_target_pages
get_target_pages(classification_result, category) ==
    TargetPagesFrom(Split(classification_result, "\n"), category, 1, <<>>)

\* possible_keys of _get_page_content, in the order they are tried
possible_keys(page_num) ==
    << <<"P", "a", "g", "e", " ">> \o page_num,
       <<"*", "P", "a", "g", "e", " ">> \o page_num \o <<"*">>,
       <<"P", "a", "g", "e", " ">> \o page_num \o <<":">> >>

\* The first key of keys[i..] present in the map, by exact match.
RECURSIVE FirstPresent(_, _, _)
FirstPresent(keys, i, extracted_data) ==
    IF i > Len(keys) THEN None
    ELSE IF keys[i] \in DOMAIN extracted_data THEN extracted_data[keys[i]]
    ELSE FirstPresent(keys, i + 1, extracted_data)

\* A lookup that tries the keys in the reverse order.
get_page_content_reversed(page_num, extracted_data) ==
    LET keys == possible_keys(page_num)
    IN FirstPresent(<<keys[3], keys[2], keys[1]>>, 1, extracted_data)

\* PageClassifier._get_page_content
get_page_content(page_num, extracted_data) ==
    FirstPresent(possible_keys(page_num), 1, extracted_data)

\* f"Page {page_num}:\n{page_content}\n"
PageBlock(page_num, page_content) ==
    <<"P", "a", "g", "e", " ">> \o page_num \o <<":", "\n">> \o page_content \o <<"\n">>

\* The inner loop of classify_pages: the pages of one category that resolve to
\* a text, in the order their blocks are appended to category_content.
RECURSIVE ResolvedFrom(_, _, _, _)
ResolvedFrom(pages, i, extracted_data, resolved) ==
    IF i > Len(pages) THEN resolved
    ELSE ResolvedFrom(pages, i + 1, extracted_data,
            IF Truthy(get_page_content(pages[i], extracted_data))
            THEN Append(resolved, pages[i])
            ELSE resolved)

resolved_pages(classification_result, category, extracted_data) ==
    ResolvedFrom(SortedByInt(get_target_pages(classification_result, category)),
                 1, extracted_data, <<>>)

\* "\n\n".join(category_content)
category_text(resolved, extracted_data) ==
    Join([i \in 1..Len(resolved) |->
              PageBlock(resolved[i], get_page_content(resolved[i], extracted_data))],
         <<"\n", "\n">>)

\* The outer loop of classify_pages over self.categories: st is
\* [content: the returned dict, dir: the folder, pages: the resolved pages].
RECURSIVE ClassifyFrom(_, _, _, _)
ClassifyFrom(i, classification_result, extracted_data, st) ==
    IF i > Len(categories) THEN st
    ELSE LET category == categories[i]
             resolved == resolved_pages(classification_result, category, extracted_data)
             text     == category_text(resolved, extracted_data)
         IN ClassifyFrom(i + 1, classification_result, extracted_data,
                IF resolved # <<>>
                THEN [content |-> DictPut(st.content, category, text),
                      dir     |-> WriteFile(st.dir, SectionFile(category), text),
                      pages   |-> DictPut(st.pages, category, resolved)]
                ELSE st)

\* A classifier that, left without a response, files the first page under
\* the introduction instead of giving up.
classify_pages_with_fallback(dir, classification_result) ==
    LET extracted_data == load_extracted_text(dir, ExtractedTextFile)
        failed == [content |-> EmptyDict, dir |-> dir, pages |-> EmptyDict]
        fallback == <<"i","n","t","r","o","d","u","c","t","i","o","n",":"," ","1">>
    IN IF ~DictTruthy(extracted_data) THEN failed
       ELSE ClassifyFrom(1, IF Truthy(classification_result) THEN classification_result ELSE fallback,
                         extracted_data, failed)

\* PageClassifier.classify_pages(extracted_text_file, output_dir), where
\* classification_result is what ai_api.generate_content answers (None: no response).
classify_pages(dir, classification_result) ==
    LET extracted_data == load_extracted_text(dir, ExtractedTextFile)
        failed == [content |-> EmptyDict, dir |-> dir, pages |-> EmptyDict]
    IN IF ~DictTruthy(extracted_data) THEN failed
       ELSE IF ~Truthy(classification_result) THEN failed
       ELSE ClassifyFrom(1, classification_result, extracted_data, failed)

(***************************************************************************)
(* Text Extractor (src/text_extractor.py): what stage 1 leaves on disk     *)
(***************************************************************************)
DigitChar(n) ==
    CASE n = 0 -> "0" [] n = 1 -> "1" [] n = 2 -> "2" [] n = 3 -> "3" [] n = 4 -> "4"
      [] n = 5 -> "5" [] n = 6 -> "6" [] n = 7 -> "7" [] n = 8 -> "8" [] n = 9 -> "9"

\* str(n) for a page number
RECURSIVE IntToStr(_)
IntToStr(n) == IF n < 10 THEN <<DigitChar(n)>> ELSE Append(IntToStr(n \div 10), DigitChar(n % 10))

\* The text the capability extracted from page n (every page has its own).
PageText(n) == <<"t">> \o IntToStr(n)

\* The file extract_text writes for pages 1..n: f"*{page}*:\n{text}\n\n" per page.
RECURSIVE ExtractedFileText(_)
ExtractedFileText(n) ==
    IF n = 0 THEN <<>>
    ELSE ExtractedFileText(n - 1) \o PageHeader(IntToStr(n)) \o <<"\n">>
             \o PageText(n) \o <<"\n", "\n">>

(***************************************************************************)
(* Direct calls of the classifier's helpers, as the unit tests make them   *)
(***************************************************************************)
MaxPages == 2       \* pages of the slide deck
MaxLines == 2       \* lines of a classification response

\* How a response line may begin ...
LinePrefixes ==
    { <<"I","n","t","r","o","d","u","c","t","i","o","n",":"," ">>,
      <<"M","E","T","H","O","D","S",":"," ">>,
      <<" ","M","e","t","h","o","d","s",":"," ">>,
      <<"U","n","r","e","l","a","t","e","d",":"," ">> }

\* ... and how it may go on: page numbers with assorted separators.
LineTails ==
    { <<>>,
      <<"1">>,
      <<"2",","," ","1">>,
      <<"1","-","3">>,
      <<"0","1"," ","2">> }

ResponseLineSet == { p \o t : p \in LinePrefixes, t \in LineTails }

\* The responses: up to MaxLines lines joined by newlines.
ResponseLineLists == UNION { [1..n -> ResponseLineSet] : n \in 0..MaxLines }

QueryCategories == CategorySet \cup {"Introduction"}

\* Maps handed to _get_page_content: any set of these keys, each with its own text.
CandidateKeys ==
    { <<"P","a","g","e"," ","1">>, <<"*","P","a","g","e"," ","1","*">>,
      <<"P","a","g","e"," ","1",":">>,
      <<"P","a","g","e"," ","2">>, <<"*","P","a","g","e"," ","2","*">>,
      <<"P","a","g","e"," ","2",":">>,
      <<"p","a","g","e"," ","1">>, <<"*","P","a","g","e"," ","1","*",":">> }

StoredText(key) == <<"[">> \o key \o <<"]">>

QueryPageNums == { <<"1">>, <<"2">>, <<"3">> }

\* The folder classify_pages is run on: stage 1 has written n pages, or nothing.
ExtractedDirs ==
    {EmptyDir} \cup { WriteFile(EmptyDir, ExtractedTextFile, ExtractedFileText(n)) : n \in 0..MaxPages }

InitGetTargetPages ==
    /\ files = EmptyDir
    /\ \E lines \in ResponseLineLists, category \in QueryCategories :
         call = [op |-> "_get_target_pages", done |-> FALSE, lines |-> lines,
                 classification_result |-> Join(lines, <<"\n">>),
                 category |-> category, ret |-> None]

InitGetPageContent ==
    /\ files = EmptyDir
    /\ \E keys \in SUBSET CandidateKeys, page_num \in QueryPageNums :
         call = [op |-> "_get_page_content", done |-> FALSE,
                 extracted_data |-> [k \in keys |-> StoredText(k)],
                 page_num |-> page_num, ret |-> None]

InitClassifyPages ==
    /\ files \in ExtractedDirs
    /\ \E lines \in ResponseLineLists, answered \in BOOLEAN :
         /\ ~answered => lines = <<>>
         /\ call = [op |-> "classify_pages", done |-> FALSE, lines |-> lines,
                    classification_result |-> IF answered THEN Join(lines, <<"\n">>) ELSE None,
                    before |-> files, ret |-> EmptyDict, pages |-> EmptyDict]

InitClassifier ==
    /\ PipelineIdle
    /\ FiguresIdle
    /\ (InitGetTargetPages \/ InitGetPageContent \/ InitClassifyPages)

CallGetTargetPages ==
    /\ call.op = "_get_target_pages" /\ ~call.done
    /\ call' = [call EXCEPT !.done = TRUE,
                            !.ret = get_target_pages(call.classification_result, call.category)]
    /\ UNCHANGED <<files, pipeline_vars, figure_vars>>

CallGetPageContent ==
    /\ call.op = "_get_page_content" /\ ~call.done
    /\ call' = [call EXCEPT !.done = TRUE,
                            !.ret = get_page_content(call.page_num, call.extracted_data)]
    /\ UNCHANGED <<files, pipeline_vars, figure_vars>>

CallClassifyPages ==
    /\ call.op = "classify_pages" /\ ~call.done
    /\ LET r == classify_pages(files, call.classification_result)
       IN /\ files' = r.dir
          /\ call' = [call EXCEPT !.done = TRUE, !.ret = r.content, !.pages = r.pages]
    /\ UNCHANGED <<pipeline_vars, figure_vars>>

NextClassifier == CallGetTargetPages \/ CallGetPageContent \/ CallClassifyPages

SpecClassifier == InitClassifier /\ [][NextClassifier]_vars

(***************************************************************************)
(* Claims about the classifier's helpers                                   *)
(***************************************************************************)
\* Two characters that differ at most in their case.
SameLetter(a, b) == LowerChar(a) = LowerChar(b)

\* A line that begins, case-insensitively, with the name of the category.
BeginsWithName(line, category) ==
    LET name == CategoryChars(category)
    IN /\ Len(line) >= Len(name)
       /\ \A j \in 1..Len(name) : SameLetter(line[j], name[j])

\* The integers that appear on a line: its maximal runs of digits, as <<first, last>>.
DigitRuns(line) ==
    { r \in (1..Len(line)) \X (1..Len(line)) :
        /\ r[1] <= r[2]
        /\ \A j \in r[1]..r[2] : line[j] \in Digits
        /\ (r[1] = 1 \/ line[r[1] - 1] \notin Digits)
        /\ (r[2] = Len(line) \/ line[r[2] + 1] \notin Digits) }

\* Every appearance of an integer on a line of the category: <<line, first, last>>.
Appearances(lines, category) ==
    { <<i, r[1], r[2]>> : i \in { k \in 1..Len(lines) : BeginsWithName(lines[k], category) },
                          r \in (1..20) \X (1..20) }
    \cap { a \in (1..Len(lines)) \X (1..20) \X (1..20) :
             <<a[2], a[3]>> \in DigitRuns(lines[a[1]]) }

ComesBefore(a, b) == a[1] < b[1] \/ (a[1] = b[1] /\ a[2] < b[2])

RankOf(a, all) == Cardinality({ b \in all : ComesBefore(b, a) }) + 1

\* C7: _get_target_pages returns exactly the integers that appear on the lines
\* beginning (case-insensitively) with the category name, in order of
\* appearance, whatever the separators, and nothing from any other line.
C7_TargetPagesExact ==
    (call.op = "_get_target_pages" /\ call.done) =>
        LET all == Appearances(call.lines, call.category)
        IN /\ Len(call.ret) = Cardinality(all)
           /\ \A a \in all :
                 call.ret[RankOf(a, all)] = SubSeq(call.lines[a[1]], a[2], a[3])

\* C7 witness: a two-line response whose first line belongs to another bucket
\* and whose second, upper-case line yields two numbers for the category.
C7_Witness ==
    /\ call.op = "_get_target_pages" /\ call.done
    /\ call.category = "methods"
    /\ Len(call.lines) = 2
    /\ FindAllDigits(call.lines[1]) # <<>>
    /\ ~BeginsWithName(call.lines[1], "methods")
    /\ call.ret = << <<"2">>, <<"1">> >>

\* C8: _get_page_content returns the text stored under the first of the keys
\* "Page N", "*Page N*", "Page N:" present by exact match, and None when none
\* of the three is present.
C8_PageContentFirstKey ==
    (call.op = "_get_page_content" /\ call.done) =>
        LET N    == call.page_num
            data == call.extracted_data
            k1   == <<"P","a","g","e"," ">> \o N
            k2   == <<"*","P","a","g","e"," ">> \o N \o <<"*">>
            k3   == <<"P","a","g","e"," ">> \o N \o <<":">>
        IN call.ret = IF k1 \in DOMAIN data THEN data[k1]
                      ELSE IF k2 \in DOMAIN data THEN data[k2]
                      ELSE IF k3 \in DOMAIN data THEN data[k3]
                      ELSE None

\* C8 witness: the second and third spellings are both stored, the first is
\* not, and the text of the second came back.
C8_Witness ==
    /\ call.op = "_get_page_content" /\ call.done
    /\ call.page_num = <<"2">>
    /\ <<"P","a","g","e"," ","2">> \notin DOMAIN call.extracted_data
    /\ <<"*","P","a","g","e"," ","2","*">> \in DOMAIN call.extracted_data
    /\ <<"P","a","g","e"," ","2",":">> \in DOMAIN call.extracted_data
    /\ call.ret = StoredText(<<"*","P","a","g","e"," ","2","*">>)

\* The page numbers the response lists for one of the six categories.
MentionedPages(classification_result) ==
    UNION { Range(get_target_pages(classification_result, c)) : c \in CategorySet }

\* A page number under which the input holds a text.
InInput(page_num, extracted_data) ==
    \E i \in 1..3 : possible_keys(page_num)[i] \in DOMAIN extracted_data

\* The categories whose resolved page set holds the page.
CategoriesOf(page_num, pages) ==
    { c \in DOMAIN pages : page_num \in Range(pages[c]) }

\* C6: after classify_pages, every page number the response mentions for a
\* category and the input holds is in the resolved page set of exactly one
\* category (the categories partition the pages).
C6_Partition ==
    (call.op = "classify_pages" /\ call.done /\ Truthy(call.classification_result)) =>
        \A p \in MentionedPages(call.classification_result) :
            InInput(p, load_extracted_text(call.before, ExtractedTextFile)) =>
                Cardinality(CategoriesOf(p, call.pages)) = 1

(***************************************************************************)
(* Chapter resolution: the compiler, the figure stage, the metadata stage  *)
(***************************************************************************)
\* A chapter_order with two categories exchanged.
chapter_order_swapped ==
    <<"introduction", "methods", "related works", "results", "conclusions", "appendix">>

\* ThesisCompiler.chapter_order
chapter_order == categories

\* A resolution that looks for the cited chapter first.
resolve_chapter_file_cited_first(dir, chapter_type) ==
    LET first  == CitedFile(chapter_type)
        second == IF ~Exists(dir, first) THEN WithFiguresFile(chapter_type) ELSE first
    IN IF ~Exists(dir, second) THEN ChapterFile(chapter_type) ELSE second

\* The body of the loop of get_chapter_files: the with_figures file, if not
\* found the cited file, if still not found the plain chapter file.
resolve_chapter_file(dir, chapter_type) ==
    LET first  == WithFiguresFile(chapter_type)
        second == IF ~Exists(dir, first) THEN CitedFile(chapter_type) ELSE first
    IN IF ~Exists(dir, second) THEN ChapterFile(chapter_type) ELSE second

RECURSIVE ChapterFilesFrom(_, _, _, _)
ChapterFilesFrom(dir, order, i, chapter_files) ==
    IF i > Len(order) THEN chapter_files
    ELSE LET chapter_file == resolve_chapter_file(dir, order[i])
         IN ChapterFilesFrom(dir, order, i + 1,
                IF Exists(dir, chapter_file)
                THEN Append(chapter_files, chapter_file)
                ELSE chapter_files)

\* ThesisCompiler.get_chapter_files (the same code in both thesis_compiler.py)
get_chapter_files(dir) == ChapterFilesFrom(dir, chapter_order, 1, <<>>)

\* file_patterns of read_chapter_content, in the order they are tried
file_patterns(chapter_type) ==
    <<WithFiguresFile(chapter_type), CitedFile(chapter_type), ChapterFile(chapter_type)>>

RECURSIVE ReadFirst(_, _, _)
ReadFirst(dir, patterns, i) ==
    IF i > Len(patterns) THEN <<>>
    ELSE IF Exists(dir, patterns[i]) THEN dir[patterns[i]]
    ELSE ReadFirst(dir, patterns, i + 1)

\* FigureGenerator.read_chapter_content
read_chapter_content(dir, chapter_type) == ReadFirst(dir, file_patterns(chapter_type), 1)

\* FigureGenerator.process_chapters: target_chapters and the files it collects
target_chapters == <<"introduction", "methods", "results", "appendix">>

RECURSIVE ExistingCited(_, _, _, _)
ExistingCited(dir, chapters, i, chapter_files) ==
    IF i > Len(chapters) THEN chapter_files
    ELSE ExistingCited(dir, chapters, i + 1,
            IF Exists(dir, CitedFile(chapters[i]))
            THEN Append(chapter_files, CitedFile(chapters[i]))
            ELSE chapter_files)

figure_chapter_files(dir) == ExistingCited(dir, target_chapters, 1, <<>>)

\* YamlMetadataGenerator._generate_thesis_metadata: chapter_order and the
\* files whose content it reads into chapters_content
metadata_chapter_order == <<"introduction", "methods", "results", "conclusions">>

metadata_chapter_files(dir) == ExistingCited(dir, metadata_chapter_order, 1, <<>>)

(***************************************************************************)
(* Direct calls of the resolution functions on a folder of chapter files   *)
(***************************************************************************)
MaxChapterFiles == 3    \* chapter files in the folder

VariantFiles(category) ==
    {ChapterFile(category), CitedFile(category), WithFiguresFile(category)}

AllChapterFiles == UNION { VariantFiles(c) : c \in CategorySet }

\* Every chapter file has its own content.
VariantText(name) ==
    LET c == CHOOSE i \in 1..Len(categories) : name \in VariantFiles(categories[i])
    IN <<(IF name = ChapterFile(categories[c]) THEN "p"
          ELSE IF name = CitedFile(categories[c]) THEN "c" ELSE "w"),
         DigitChar(c)>>

ChapterDirs ==
    { [n \in names |-> VariantText(n)] :
        names \in { ns \in SUBSET AllChapterFiles : Cardinality(ns) <= MaxChapterFiles } }

ResolveOps ==
    { "get_chapter_files", "read_chapter_content",
      "figure_chapter_files", "metadata_chapter_files" }

InitResolve ==
    /\ PipelineIdle
    /\ FiguresIdle
    /\ files \in ChapterDirs
    /\ \E op \in ResolveOps, chapter_type \in CategorySet :
         /\ op # "read_chapter_content" => chapter_type = categories[1]
         /\ call = [op |-> op, done |-> FALSE, chapter_type |-> chapter_type, ret |-> <<>>]

CallGetChapterFiles ==
    /\ call.op = "get_chapter_files" /\ ~call.done
    /\ call' = [call EXCEPT !.done = TRUE, !.ret = get_chapter_files(files)]
    /\ UNCHANGED <<files, pipeline_vars, figure_vars>>

CallReadChapterContent ==
    /\ call.op = "read_chapter_content" /\ ~call.done
    /\ call' = [call EXCEPT !.done = TRUE,
                            !.ret = read_chapter_content(files, call.chapter_type)]
    /\ UNCHANGED <<files, pipeline_vars, figure_vars>>

CallFigureChapterFiles ==
    /\ call.op = "figure_chapter_files" /\ ~call.done
    /\ call' = [call EXCEPT !.done = TRUE, !.ret = figure_chapter_files(files)]
    /\ UNCHANGED <<files, pipeline_vars, figure_vars>>

CallMetadataChapterFiles ==
    /\ call.op = "metadata_chapter_files" /\ ~call.done
    /\ call' = [call EXCEPT !.done = TRUE, !.ret = metadata_chapter_files(files)]
    /\ UNCHANGED <<files, pipeline_vars, figure_vars>>

NextResolve ==
    \/ CallGetChapterFiles
    \/ CallReadChapterContent
    \/ CallFigureChapterFiles
    \/ CallMetadataChapterFiles

SpecResolve == InitResolve /\ [][NextResolve]_vars

(***************************************************************************)
(* Claims about chapter resolution                                         *)
(***************************************************************************)
\* The variant the priority rule selects: with_figures, else cited, else plain.
HasVariant(dir, category) == \E n \in VariantFiles(category) : Exists(dir, n)

PreferredVariant(dir, category) ==
    IF WithFiguresFile(category) \in DOMAIN dir THEN WithFiguresFile(category)
    ELSE IF CitedFile(category) \in DOMAIN dir THEN CitedFile(category)
    ELSE ChapterFile(category)

\* C3: for every category and every combination of variants present, chapter
\* resolution selects the with_figures variant if it exists, otherwise the
\* cited variant if it exists, otherwise the plain variant; and
\* read_chapter_content returns the empty string when none exists.
C3_VariantPriority ==
    /\ (call.op = "get_chapter_files" /\ call.done) =>
          \A c \in CategorySet :
              HasVariant(files, c) =>
                  Range(call.ret) \cap VariantFiles(c) = {PreferredVariant(files, c)}
    /\ (call.op = "read_chapter_content" /\ call.done) =>
          call.ret = IF HasVariant(files, call.chapter_type)
                     THEN files[PreferredVariant(files, call.chapter_type)]
                     ELSE <<>>

\* C3 witness: all three variants of one category coexist and the compiler
\* lists its with_figures file.
C3_Witness ==
    /\ call.op = "get_chapter_files" /\ call.done
    /\ VariantFiles("methods") \subseteq DOMAIN files
    /\ call.ret = <<WithFiguresFile("methods")>>

\* The position of a chapter file's category in the canonical order.
CategoryIndex(name) ==
    CHOOSE i \in 1..Len(categories) : name \in VariantFiles(categories[i])

\* C4: get_chapter_files returns its paths in the canonical category order,
\* exactly one path for each category with at least one variant present and
\* none for a category without; a missing category is not an error.
C4_CanonicalOrder ==
    (call.op = "get_chapter_files" /\ call.done) =>
        /\ \A i \in 1..Len(call.ret) : call.ret[i] \in DOMAIN files
        /\ \A i, j \in 1..Len(call.ret) :
              i < j => CategoryIndex(call.ret[i]) < CategoryIndex(call.ret[j])
        /\ { categories[CategoryIndex(call.ret[i])] : i \in 1..Len(call.ret) }
              = { c \in CategorySet : HasVariant(files, c) }

\* C4 witness: related works and methods are present in different variants,
\* introduction is missing, and two paths are returned in canonical order.
C4_Witness ==
    /\ call.op = "get_chapter_files" /\ call.done
    /\ ~HasVariant(files, "introduction")
    /\ call.ret = <<CitedFile("related works"), ChapterFile("methods")>>

\* C5: every stage that reads chapter content resolves a category's chapter
\* by the compiler's priority rule: whenever a category the stage handles has
\* at least one variant, the figure stage and the metadata stage read the
\* highest-priority variant present, as the compiler does.
C5_SharedResolution ==
    /\ (call.op = "figure_chapter_files" /\ call.done) =>
          \A c \in Range(target_chapters) :
              HasVariant(files, c) =>
                  Range(call.ret) \cap VariantFiles(c) = {PreferredVariant(files, c)}
    /\ (call.op = "metadata_chapter_files" /\ call.done) =>
          \A c \in Range(metadata_chapter_order) :
              HasVariant(files, c) =>
                  Range(call.ret) \cap VariantFiles(c) = {PreferredVariant(files, c)}

(***************************************************************************)
(* The pipeline: main.process_pdf and the seven stages                     *)
(***************************************************************************)
MaxThreads == 2     \* the largest --threads value tried

\* The stages in the order of their blocks in process_pdf:
\* 1 extract_text, 2 categorize_pages, 3 generate_chapters, 4 add_citations,
\* 5 add_figures, 6 generate_yaml, 7 compile_thesis.
Stages == 1..7
PoolStages == {3, 4, 5}

\* The stages an invocation runs: all of them, or those its flags select.
Selected(a) == IF a.run_all THEN Stages ELSE a.flags

Last(seq) == seq[Len(seq)]

\* The next block of process_pdf whose condition holds, after those already
\* passed; 0 when control reaches the final return.
NextStage(a, done) ==
    LET todo == { s \in Selected(a) : done = <<>> \/ s > Last(done) }
    IN IF todo = {} THEN 0 ELSE CHOOSE s \in todo : \A t \in todo : s <= t

\* An orchestrator that forgets to test a stage's result.
StageFailedNeverChecked(value) == value = "raises"

\* `if not <result>: raise RuntimeError(...)`, or the stage itself raised.
StageFailed(value) == value # "truthy"

\* What the stages leave in the folder.
ImageFile(n)    == "page_" \o (CASE n = 1 -> "1" [] n = 2 -> "2" [] n = 3 -> "3" [] OTHER -> "4") \o ".jpg"
BibFile         == "references.bib"
MetadataFile    == "thesis_metadata.yaml"
OutputPdf       == "thesis.pdf"

ImageBytes      == <<"j">>
RECURSIVE WriteImages(_, _)
WriteImages(dir, n) ==
    IF n = 0 THEN dir ELSE WriteFile(WriteImages(dir, n - 1), ImageFile(n), ImageBytes)

\* extract_text clearing the folder when the deck gives no page.
extract_text_clearing(dir, n) ==
    IF n = 0 THEN EmptyDir
    ELSE WriteFile(WriteImages(dir, n), ExtractedTextFile, ExtractedFileText(n))

\* TextExtractor.extract_text on a deck of n pages (n = 0: no image rendered).
extract_text(dir, n) ==
    WriteFile(WriteImages(dir, n), ExtractedTextFile, ExtractedFileText(n))

\* The chapter the capability writes for a category, and its later versions.
CategoryDigit(category) ==
    DigitChar(CHOOSE i \in 1..Len(categories) : categories[i] = category)
ChapterText(category) == <<"#", CategoryDigit(category)>>
CitationMarker == <<"[", "@", "]">>

\* The texts the capability hands back for a chapter: the plain one and, tried
\* for the methods chapter, one with a carriage return before a line feed.
ChapterTexts(category) ==
    {ChapterText(category)} \cup
    (IF category = "methods"
     THEN {ChapterText(category) \o <<"\r", "\n", "x">>}
     ELSE {})

\* f.read() of a file opened with open(path, "r", encoding="utf-8"): universal
\* newlines, "\r\n" and a lone "\r" are read as "\n".
RECURSIVE ReadText(_)
ReadText(bytes) ==
    IF bytes = <<>> THEN <<>>
    ELSE IF bytes[1] = "\r"
         THEN <<"\n">> \o ReadText(IF Len(bytes) >= 2 /\ bytes[2] = "\n"
                                   THEN SubSeq(bytes, 3, Len(bytes))
                                   ELSE Tail(bytes))
         ELSE <<bytes[1]>> \o ReadText(Tail(bytes))

\* os.listdir names the files in an order of its own: the orders a sequence
\* of names can come in.
Orders(seq) ==
    { p \in [1..Len(seq) -> Range(seq)] : \A i, j \in 1..Len(seq) : p[i] = p[j] => i = j }
FigureMarker   == <<"(", "@", "f", "i", "g", ")">>

\* The responses of the classification prompt tried in the pipeline.
PipelineResponses ==
    { None,
      <<"U","n","r","e","l","a","t","e","d",":"," ","1",","," ","2">>,
      <<"I","n","t","r","o","d","u","c","t","i","o","n",":"," ","1","\n",
        "M","e","t","h","o","d","s",":"," ","2">>,
      <<"I","n","t","r","o","d","u","c","t","i","o","n",":"," ","1",","," ","2">>,
      <<"I","n","t","r","o","d","u","c","t","i","o","n",":"," ","1","\n",
        "R","e","s","u","l","t","s",":"," ","2">> }

NoCall == [op |-> "none", done |-> TRUE]

\* The workers of a stage: the pool's max_workers, or the caller's own thread.
Workers(a) == IF a.threads <= 1 THEN 1 ELSE a.threads

\* Every unit handed to the stage twice.
NewPoolTwice(tasks) ==
    [i \in 1..(2 * Len(tasks)) |->
        [task |-> tasks[((i - 1) % Len(tasks)) + 1], state |-> "queued", outcome |-> "-",
         asked |-> FALSE]]

\* One task per unit of the stage, in the order of submission.
NewPool(tasks) ==
    [i \in 1..Len(tasks) |-> [task |-> tasks[i], state |-> "queued", outcome |-> "-", asked |-> FALSE]]

\* A pool whose shutdown does not wait for its tasks.
PoolDrainedNoWait(p) == TRUE

\* Leaving `with ThreadPoolExecutor(...)` (shutdown(wait=True)), or the end of
\* the sequential loop: every submitted task has finished.
PoolDrained(p) == \A i \in 1..Len(p) : p[i].state = "finished"

Running(p) == { i \in 1..Len(p) : p[i].state = "running" }
Queued(p)  == { i \in 1..Len(p) : p[i].state = "queued" }
TasksWith(p, outcomes) == { p[i].task : i \in { k \in 1..Len(p) : p[k].outcome \in outcomes } }

CurrentStage == IF started = <<>> THEN 0 ELSE Last(started)

\* The end of a stage: its value reaches process_pdf, which raises or goes on.
Returned(stage, value) ==
    /\ result' = [s \in (DOMAIN result) \cup {stage} |-> IF s = stage THEN value ELSE result[s]]
    /\ pc' = IF StageFailed(value) THEN "raised" ELSE "next"

\* A folder as process_pdf can find it: new, or left behind by an earlier
\* extraction and classification of the same deck.
EarlierResponses == PipelineResponses \ {None}
ClassifiedFolders ==
    { classify_pages(extract_text(EmptyDir, MaxPages), r).dir : r \in EarlierResponses }

\* A section file emptied by hand down to white space.
BlankText == <<" ", "\n">>
BlankedFolders ==
    { WriteFile(dir, SectionFile("methods"), BlankText) :
        dir \in { d \in ClassifiedFolders : Exists(d, SectionFile("methods")) } }

UsedFolders == {EmptyDir} \cup ClassifiedFolders \cup BlankedFolders

InitPipeline ==
    /\ files \in UsedFolders
    /\ call = NoCall
    /\ PipelineIdle
    /\ FiguresIdle

\* main(): process_pdf(pdf_file, threads=..., run_all=..., <stage flags>).
Invoke ==
    /\ UNCHANGED figure_vars
    /\ pc = "idle"
    /\ \E run_all \in BOOLEAN, flags \in SUBSET Stages, threads \in {1, MaxThreads} :
         /\ run_all => flags = {}
         /\ ~run_all => flags # {}
         /\ args' = [run_all |-> run_all, flags |-> flags, threads |-> threads]
    /\ pc' = "next"
    /\ UNCHANGED <<files, call, started, pool, result>>

\* Stage 1: extractor.extract_text(extracted_text_file).
RunExtraction ==
    /\ UNCHANGED figure_vars
    /\ pc = "next" /\ NextStage(args, started) = 1
    /\ started' = Append(started, 1)
    /\ \E n \in {0, MaxPages} :
         /\ files' = extract_text(files, n)
         /\ Returned(1, IF n = 0 THEN "falsy" ELSE "truthy")
    /\ UNCHANGED <<call, args, pool>>

\* Stage 2: classifier.classify_pages(extracted_text_file, debug_folder).
RunClassification ==
    /\ UNCHANGED figure_vars
    /\ pc = "next" /\ NextStage(args, started) = 2
    /\ started' = Append(started, 2)
    /\ \E response \in PipelineResponses :
         LET r == classify_pages(files, response)
         IN /\ files' = r.dir
            /\ call' = [op |-> "classify_pages", done |-> TRUE,
                        classification_result |-> response, before |-> files,
                        ret |-> r.content, pages |-> r.pages]
            /\ Returned(2, IF DictTruthy(r.content) THEN "truthy" ELSE "falsy")
    /\ UNCHANGED <<args, pool>>

\* `return debug_folder` at the end of process_pdf.
Finish ==
    /\ UNCHANGED figure_vars
    /\ pc = "next" /\ NextStage(args, started) = 0
    /\ pc' = "done"
    /\ UNCHANGED <<files, call, args, started, pool, result>>

\* A worker (or, with threads <= 1, the loop itself) takes the next task in
\* the order of submission.
TaskStart ==
    /\ UNCHANGED figure_vars
    /\ pc = "pool"
    /\ Queued(pool) # {}
    /\ Cardinality(Running(pool)) < Workers(args)
    /\ LET i == CHOOSE k \in Queued(pool) : \A j \in Queued(pool) : k <= j
       IN pool' = [pool EXCEPT ![i].state = "running"]
    /\ UNCHANGED <<files, call, args, pc, started, result>>

\* A loop over the futures without the try/except around future.result().
TaskExceptionNeverCaught(a) == FALSE

\* An exception out of a chapter or citation task is caught where the result
\* of its future is collected (threads > 1); the sequential loop calls the
\* task directly and catches nothing.
TaskExceptionCaught(a) == a.threads > 1

\* The outcomes a task reaches without a call of ai_api.generate_content: the
\* early returns of _generate_single_chapter_task and the plain copy of
\* _process_single_chapter_task.
WithoutCapability == {"skip", "copy"}

\* A worker lost with its exception: its future never completes.
FinishedUnlessRaised(p, i, outcome) ==
    IF outcome = "exc"
    THEN [p EXCEPT ![i].state = "lost", ![i].outcome = outcome]
    ELSE [p EXCEPT ![i].state = "finished", ![i].outcome = outcome,
                   ![i].asked = outcome \notin WithoutCapability]

Finished(p, i, outcome) ==
    [p EXCEPT ![i].state = "finished", ![i].outcome = outcome,
              ![i].asked = outcome \notin WithoutCapability]

\* Stage 3: generator.generate_all_chapters(debug_folder, threads): one task
\* per category, submitted in the order of self.categories.
StartChapters ==
    /\ UNCHANGED figure_vars
    /\ pc = "next" /\ NextStage(args, started) = 3
    /\ started' = Append(started, 3)
    /\ pool' = NewPool(categories)
    /\ pc' = "pool"
    /\ UNCHANGED <<files, call, args, result>>

\* What _generate_single_chapter_task can come to for a category: skipped
\* (no section file, or a blank one), a written chapter, no chapter text from
\* generate_chapter, or an exception out of the content capability.
\* A task that tests the section file's existence only.
ChapterOutcomesBlankNotSkipped(dir, category) ==
    IF ~Exists(dir, SectionFile(category)) THEN {"skip"}
    ELSE {"ok", "none", "exc"}

ChapterOutcomes(dir, category) ==
    IF ~Exists(dir, SectionFile(category)) THEN {"skip"}
    ELSE IF Strip(dir[SectionFile(category)]) = <<>> THEN {"skip"}
    ELSE {"ok", "none", "exc"}

FinishChapterTask ==
    /\ UNCHANGED figure_vars
    /\ pc = "pool" /\ CurrentStage = 3
    /\ \E i \in Running(pool) :
         \E outcome \in ChapterOutcomes(files, pool[i].task), chapter_text \in ChapterTexts(pool[i].task) :
            /\ outcome # "ok" => chapter_text = ChapterText(pool[i].task)
            /\ pool' = Finished(pool, i, outcome)
            /\ files' = IF outcome = "ok"
                        THEN WriteFile(files, ChapterFile(pool[i].task), chapter_text)
                        ELSE files
            /\ IF outcome = "exc" /\ ~TaskExceptionCaught(args)
               THEN Returned(3, "raises")
               ELSE UNCHANGED <<pc, result>>
    /\ UNCHANGED <<call, args, started>>

\* `return generated_chapters`: empty unless some task wrote a chapter.
ReturnChapters ==
    /\ UNCHANGED figure_vars
    /\ pc = "pool" /\ CurrentStage = 3
    /\ PoolDrained(pool)
    /\ Returned(3, IF TasksWith(pool, {"ok"}) # {} THEN "truthy" ELSE "falsy")
    /\ UNCHANGED <<files, call, args, started, pool>>

\* Stage 4: citation_gen.process_chapters(debug_folder, threads): one task per
\* `*_chapter.md` file of the folder.
citation_chapters == {"introduction", "related_works", "results"}

\* The chapters whose `_chapter.md` the folder holds.
ChaptersGenerated(dir) == SelectSeq(categories, LAMBDA c : Exists(dir, ChapterFile(c)))

StartCitations ==
    /\ UNCHANGED figure_vars
    /\ pc = "next" /\ NextStage(args, started) = 4
    /\ started' = Append(started, 4)
    /\ LET chapter_files == ChaptersGenerated(files)
       IN IF chapter_files = <<>>
          THEN /\ pool' = <<>>
               /\ Returned(4, "falsy")
          ELSE /\ \E listed \in Orders(chapter_files) : pool' = NewPool(listed)
               /\ pc' = "pool"
               /\ UNCHANGED result
    /\ UNCHANGED <<files, call, args>>

\* What _process_single_chapter_task can come to: a chapter outside
\* citation_chapters is copied to its `_cited` file; another one yields
\* citation data with papers, citation data without papers, no citation data,
\* or an exception.
CitationOutcomes(category) ==
    IF FileStem(category) \in citation_chapters
    THEN {"papers", "nopapers", "none", "exc"}
    ELSE {"copy"}

FinishCitationTask ==
    /\ UNCHANGED figure_vars
    /\ pc = "pool" /\ CurrentStage = 4
    /\ \E i \in Running(pool) :
         \E outcome \in CitationOutcomes(pool[i].task) :
            /\ pool' = Finished(pool, i, outcome)
            /\ files' = IF outcome = "copy"
                        THEN WriteFile(files, CitedFile(pool[i].task), ReadText(files[ChapterFile(pool[i].task)]))
                        ELSE files
            /\ IF outcome = "exc" /\ ~TaskExceptionCaught(args)
               THEN Returned(4, "falsy")
               ELSE UNCHANGED <<pc, result>>
    /\ UNCHANGED <<call, args, started>>

RECURSIVE UpdateChapterCitations(_, _, _)
UpdateChapterCitations(dir, p, i) ==
    IF i > Len(p) THEN dir
    ELSE UpdateChapterCitations(
            IF p[i].outcome \in {"papers", "nopapers"}
            THEN WriteFile(dir, CitedFile(p[i].task), ReadText(dir[ChapterFile(p[i].task)]) \o CitationMarker)
            ELSE dir,
            p, i + 1)

BibText == <<"@", "b", "i", "b">>

\* After the loop: no paper at all is a failure; otherwise references.bib is
\* exported and every chapter with citation data gets its `_cited` file.
ReturnCitations ==
    /\ UNCHANGED figure_vars
    /\ pc = "pool" /\ CurrentStage = 4
    /\ PoolDrained(pool)
    /\ IF TasksWith(pool, {"papers"}) = {}
       THEN /\ Returned(4, "falsy")
            /\ UNCHANGED files
       ELSE /\ files' = UpdateChapterCitations(WriteFile(files, BibFile, BibText), pool, 1)
            /\ Returned(4, "truthy")
    /\ UNCHANGED <<call, args, started, pool>>

\* Stage 5: figure_gen.process_chapters(debug_folder, threads): one task per
\* existing `_chapter_cited.md` of target_chapters; fails at once without such
\* a file or without any page image.
ChaptersCited(dir) == SelectSeq(target_chapters, LAMBDA c : Exists(dir, CitedFile(c)))

figure_images(dir) == { n \in 1..(MaxPages + 1) : Exists(dir, ImageFile(n)) }

StartFigures ==
    /\ UNCHANGED figure_vars
    /\ pc = "next" /\ NextStage(args, started) = 5
    /\ started' = Append(started, 5)
    /\ LET chapter_files == ChaptersCited(files)
       IN IF chapter_files = <<>> \/ figure_images(files) = {}
          THEN /\ pool' = <<>>
               /\ Returned(5, "falsy")
          ELSE /\ pool' = NewPool(chapter_files)
               /\ pc' = "pool"
               /\ UNCHANGED result
    /\ UNCHANGED <<files, call, args>>

\* _process_single_chapter_for_figures catches whatever goes wrong: the
\* `_with_figures` file is written, or it is not.
FigureOutcomes == {"ok", "exc"}

FinishFigureTask ==
    /\ UNCHANGED figure_vars
    /\ pc = "pool" /\ CurrentStage = 5
    /\ \E i \in Running(pool) :
         \E outcome \in FigureOutcomes :
            /\ pool' = Finished(pool, i, outcome)
            /\ files' = IF outcome = "ok"
                        THEN WriteFile(files, WithFiguresFile(pool[i].task),
                                       files[CitedFile(pool[i].task)] \o FigureMarker)
                        ELSE files
    /\ UNCHANGED <<call, args, pc, started, result>>

\* A stage that counts a chapter's failure as its own.
FigureStageResultAllOrNothing(p) ==
    IF \A i \in 1..Len(p) : p[i].outcome = "ok" THEN "truthy" ELSE "falsy"

\* `return True` after the loop, whatever the tasks returned.
FigureStageResult(p) == "truthy"

ReturnFigures ==
    /\ UNCHANGED figure_vars
    /\ pc = "pool" /\ CurrentStage = 5
    /\ PoolDrained(pool)
    /\ Returned(5, FigureStageResult(pool))
    /\ UNCHANGED <<files, call, args, started, pool>>

MetadataText == <<"-", "-", "-">>
PdfBytes     == <<"%", "P", "D", "F">>

\* Stage 6: metadata_gen.generate_metadata(debug_folder, metadata_file).
RunMetadata ==
    /\ UNCHANGED figure_vars
    /\ pc = "next" /\ NextStage(args, started) = 6
    /\ started' = Append(started, 6)
    /\ IF metadata_chapter_files(files) = <<>>
       THEN /\ Returned(6, "falsy")
            /\ UNCHANGED files
       ELSE \E generated \in BOOLEAN :
               /\ files' = IF generated THEN WriteFile(files, MetadataFile, MetadataText) ELSE files
               /\ Returned(6, IF generated THEN "truthy" ELSE "falsy")
    /\ UNCHANGED <<call, args, pool>>

\* Stage 7: compiler.compile_thesis(debug_folder, metadata_file, output_pdf).
RunCompile ==
    /\ UNCHANGED figure_vars
    /\ pc = "next" /\ NextStage(args, started) = 7
    /\ started' = Append(started, 7)
    /\ IF get_chapter_files(files) = <<>>
       THEN /\ Returned(7, "falsy")
            /\ UNCHANGED files
       ELSE \E compiled \in BOOLEAN :
               /\ files' = IF compiled THEN WriteFile(files, OutputPdf, PdfBytes) ELSE files
               /\ Returned(7, IF compiled THEN "truthy" ELSE "falsy")
    /\ UNCHANGED <<call, args, pool>>

NextPipeline ==
    \/ Invoke
    \/ RunExtraction
    \/ RunClassification
    \/ StartChapters
    \/ FinishChapterTask
    \/ ReturnChapters
    \/ StartCitations
    \/ FinishCitationTask
    \/ ReturnCitations
    \/ StartFigures
    \/ FinishFigureTask
    \/ ReturnFigures
    \/ TaskStart
    \/ RunMetadata
    \/ RunCompile
    \/ Finish

SpecPipeline == InitPipeline /\ [][NextPipeline]_vars

(***************************************************************************)
(* Properties of the pipeline                                              *)
(***************************************************************************)
StrictlyIncreasing(seq) == \A i \in 1..(Len(seq) - 1) : seq[i] < seq[i + 1]

\* C1: process_pdf starts its stages in the fixed order 1..7 (extraction,
\* classification, chapter generation, citation, figure referencing,
\* metadata, compilation), in run-all mode and under flags alike: the stages
\* started so far are exactly the selected ones up to the last started, in
\* increasing order, each but the last has reported success, and a stage
\* that reports failure (or raises) is the last one started, process_pdf
\* having raised; process_pdf returns only after every selected stage ran
\* and succeeded.
C1_FixedOrderFailStop ==
    /\ StrictlyIncreasing(started)
    /\ Range(started) \subseteq Selected(args)
    /\ \A s \in Selected(args) :
          (started # <<>> /\ s < Last(started)) => s \in Range(started)
    /\ \A i \in 1..(Len(started) - 1) :
          started[i] \in DOMAIN result /\ result[started[i]] = "truthy"
    /\ \A s \in DOMAIN result :
          result[s] # "truthy" => (s = Last(started) /\ pc = "raised")
    /\ pc = "done" =>
          /\ Range(started) = Selected(args)
          /\ \A s \in Selected(args) : s \in DOMAIN result /\ result[s] = "truthy"

\* Stages picked by flags, the citation stage failing: compilation, though
\* selected, is never started.
C1_Witness ==
    /\ ~args.run_all /\ args.flags = {2, 3, 4, 7}
    /\ started = <<2, 3, 4>>
    /\ pc = "raised"
    /\ result[4] = "falsy"

\* The artifacts the finished tasks of the current pool stage have written.
ArtifactsWritten ==
    \A i \in 1..Len(pool) :
       LET t == pool[i]
       IN /\ (CurrentStage = 3 /\ t.outcome = "ok") => Exists(files, ChapterFile(t.task))
          /\ (CurrentStage = 4 /\ t.outcome = "copy") => Exists(files, CitedFile(t.task))
          /\ (CurrentStage = 5 /\ t.outcome = "ok") => Exists(files, WithFiguresFile(t.task))

\* C2: with threads > 1, once a pool stage (3, 4 or 5) is no longer inside its
\* pool, that is from its return until the next stage starts or process_pdf
\* ends, every task submitted to the pool has finished, with success or
\* failure, and the finished tasks' files are in the folder.
C2_StageBarrier ==
    (args.threads > 1 /\ CurrentStage \in PoolStages /\ pc # "pool") =>
        /\ \A i \in 1..Len(pool) : pool[i].state = "finished" /\ pool[i].outcome # "-"
        /\ ArtifactsWritten

\* The chapter stage has returned from a pool of several workers in which
\* one task wrote its chapter and another one failed.
C2_Witness ==
    /\ args.threads > 1 /\ CurrentStage = 3 /\ pc = "next"
    /\ \E i, j \in 1..Len(pool) : pool[i].outcome = "ok" /\ pool[j].outcome = "exc"
    /\ Exists(files, ChapterFile("introduction")) /\ ~Exists(files, ChapterFile("methods"))

SectionFiles(dir) == { c \in CategorySet : Exists(dir, SectionFile(c)) }

\* C9: when the classification prompt gets no response, classify_pages
\* returns the empty mapping, the section files of the folder are the same
\* files with the same content as before the call, and process_pdf has
\* raised with classification as the last stage started.
C9_NoResponseAborts ==
    (call.op = "classify_pages" /\ call.classification_result = None) =>
        /\ DOMAIN call.ret = {}
        /\ SectionFiles(files) = SectionFiles(call.before)
        /\ \A c \in SectionFiles(files) : files[SectionFile(c)] = call.before[SectionFile(c)]
        /\ result[2] = "falsy"
        /\ pc = "raised"
        /\ Last(started) = 2

\* No response on a folder that holds the extracted pages and section files
\* of an earlier classification.
C9_Witness ==
    /\ call.op = "classify_pages" /\ call.classification_result = None
    /\ DictTruthy(load_extracted_text(call.before, ExtractedTextFile))
    /\ SectionFiles(call.before) = {"introduction", "methods"}
    /\ pc = "raised"

\* C10: after classify_pages returns a non-empty result, a category has its
\* `{category}_section.txt` in the folder if and only if it resolved at least
\* one page in this classification, and it has an entry in the result under
\* the same condition.
C10_SectionFileIffResolved ==
    (call.op = "classify_pages" /\ DictTruthy(call.ret)) =>
        \A c \in CategorySet :
           LET resolved == resolved_pages(call.classification_result, c,
                                          load_extracted_text(call.before, ExtractedTextFile))
           IN /\ Exists(files, SectionFile(c)) <=> resolved # <<>>
              /\ c \in DOMAIN call.ret <=> resolved # <<>>

SectionBlank(dir, category) ==
    ~Exists(dir, SectionFile(category)) \/ Strip(dir[SectionFile(category)]) = <<>>

\* C11: in the chapter stage, a finished task whose category has no section
\* file, or one of white space only, has made no capability call, has left
\* no chapter file for the category, and ended as a skip (the logger.info
\* return), not as a failure: if the stage raised, another task raised.
C11_BlankSectionSkipped ==
    CurrentStage = 3 =>
        \A i \in 1..Len(pool) :
           (pool[i].state = "finished" /\ SectionBlank(files, pool[i].task)) =>
               /\ ~pool[i].asked
               /\ ~Exists(files, ChapterFile(pool[i].task))
               /\ pool[i].outcome = "skip"
               /\ (3 \in DOMAIN result /\ result[3] = "raises") =>
                     \E j \in 1..Len(pool) : pool[j].outcome = "exc" /\ ~SectionBlank(files, pool[j].task)

\* The chapter stage has returned with a chapter for the introduction, having
\* skipped the methods, whose section file is blank, and the results, which
\* have none.
C11_Witness ==
    /\ CurrentStage = 3 /\ pc = "next"
    /\ Exists(files, SectionFile("methods")) /\ SectionBlank(files, "methods")
    /\ ~Exists(files, SectionFile("results"))
    /\ \A i \in 1..Len(pool) : pool[i].task \in {"methods", "results"} => pool[i].outcome = "skip"
    /\ Exists(files, ChapterFile("introduction"))

\* C12: when the chapter stage has returned from a run with threads > 1, no
\* task was left unstarted or unfinished whatever happened to the others:
\* every category with a non-blank section went through the capability, each
\* task that succeeded has its chapter file in the folder, the stage did not
\* raise, and the returned mapping holds exactly the categories that
\* succeeded (it is empty, and the stage fails, only if none did).
C12_ChapterFailureIsolated ==
    (args.threads > 1 /\ CurrentStage = 3 /\ pc # "pool") =>
        /\ \A i \in 1..Len(pool) :
              /\ pool[i].state = "finished"
              /\ ~SectionBlank(files, pool[i].task) => pool[i].outcome \in {"ok", "none", "exc"}
              /\ pool[i].outcome = "ok" =>
                    /\ Exists(files, ChapterFile(pool[i].task))
                    /\ files[ChapterFile(pool[i].task)] \in ChapterTexts(pool[i].task)
              /\ pool[i].outcome \in {"none", "exc"} => ~Exists(files, ChapterFile(pool[i].task))
        /\ result[3] # "raises"
        /\ result[3] = "truthy" <=> \E i \in 1..Len(pool) : pool[i].outcome = "ok"

\* The introduction's task, submitted first, raised; the methods' task still
\* wrote its chapter and the stage succeeded.
C12_Witness ==
    /\ args.threads > 1 /\ CurrentStage = 3 /\ pc = "next"
    /\ \E i, j \in 1..Len(pool) :
          /\ pool[i].task = "introduction" /\ pool[i].outcome = "exc"
          /\ pool[j].task = "methods" /\ pool[j].outcome = "ok"
    /\ Exists(files, ChapterFile("methods"))
    /\ result[3] = "truthy"

\* C13: in the citation stage only the chapters introduction, related_works
\* and results go to the analysis; a finished task for any other chapter has
\* asked nothing of the capability, and the chapter's `_chapter_cited.md`
\* holds exactly what its `_chapter.md` holds.
C13_OnlyEligibleAnalyzed ==
    CurrentStage = 4 =>
        \A i \in 1..Len(pool) :
           pool[i].state = "finished" =>
              /\ pool[i].asked => FileStem(pool[i].task) \in citation_chapters
              /\ FileStem(pool[i].task) \notin citation_chapters =>
                    /\ ~pool[i].asked
                    /\ Exists(files, CitedFile(pool[i].task))
                    /\ files[CitedFile(pool[i].task)] = files[ChapterFile(pool[i].task)]

\* C14: once the citation stage has returned, it reports failure only if no
\* chapter's task resolved a paper: whenever some task found papers the
\* stage's result is success.
C14_FailsOnlyWithoutPapers ==
    (CurrentStage = 4 /\ 4 \in DOMAIN result) =>
        /\ (\E i \in 1..Len(pool) : pool[i].outcome = "papers") => result[4] = "truthy"
        /\ result[4] = "truthy" => \E i \in 1..Len(pool) : pool[i].outcome = "papers"

\* C15: with any number of threads, when a chapter's task raised an exception
\* in the citation stage, the stage has still processed every other chapter
\* before it returns, and its result is the one the other chapters give:
\* success if and only if one of them resolved a paper.
C15_CitationExceptionIsolated ==
    (CurrentStage = 4 /\ 4 \in DOMAIN result /\ \E i \in 1..Len(pool) : pool[i].outcome = "exc") =>
        /\ \A i \in 1..Len(pool) : pool[i].state = "finished"
        /\ result[4] = (IF \E i \in 1..Len(pool) : pool[i].outcome = "papers"
                        THEN "truthy" ELSE "falsy")

(***************************************************************************)
(* Citation Generator (src/citation_generator.py): keys and markers        *)
(***************************************************************************)
MaxPapers == 3      \* papers in one export

LowerLetters ==
    {"a", "b", "c", "d", "e", "f", "g", "h", "i", "j", "k", "l", "m",
     "n", "o", "p", "q", "r", "s", "t", "u", "v", "w", "x", "y", "z"}

\* re.sub(r'[^a-z0-9]', '', key)
OnlyKeyChars(key) == SelectSeq(key, LAMBDA ch : ch \in LowerLetters \cup Digits)

\* CitationGenerator._generate_bibtex_key(paper) (on ASCII names, which the
\* NFKD step leaves as they are).
generate_bibtex_key(paper) ==
    OnlyKeyChars(
        IF paper.authors # <<>>
        THEN Lower(Split(paper.authors[1], ",")[1]) \o paper.year
        ELSE <<"p", "m", "i", "d">> \o paper.pmid \o paper.year)

\* A loop that tries the counter 1 only.
RECURSIVE UniqueKeyOneTry(_, _, _, _)
UniqueKeyOneTry(base_key, key, counter, used_keys) ==
    IF key \in used_keys /\ counter = 1
    THEN UniqueKeyOneTry(base_key, base_key \o IntToStr(counter), counter + 1, used_keys)
    ELSE key

\* `while key in used_keys: key = f"{base_key}{counter}"; counter += 1`
RECURSIVE UniqueKey(_, _, _, _)
UniqueKey(base_key, key, counter, used_keys) ==
    IF key \in used_keys
    THEN UniqueKey(base_key, base_key \o IntToStr(counter), counter + 1, used_keys)
    ELSE key

\* The loop of _export_bibtex over the papers: the keys of the entries in
\* the order written, and the keys of each sentence.
RECURSIVE ExportFrom(_, _, _)
ExportFrom(papers, i, st) ==
    IF i > Len(papers) THEN st
    ELSE LET paper == papers[i]
             base_key == generate_bibtex_key(paper)
             key == UniqueKey(base_key, base_key, 1, st.used_keys)
             sentence == paper.sentence
         IN ExportFrom(papers, i + 1,
                [used_keys |-> st.used_keys \cup {key},
                 bibtex_entries |-> Append(st.bibtex_entries, key),
                 citation_keys |->
                    DictPut(st.citation_keys, sentence,
                            IF sentence \in DOMAIN st.citation_keys
                            THEN Append(st.citation_keys[sentence], key)
                            ELSE <<key>>)])

\* _format_bibtex_entry, as far as the key goes: "@article{<key>,".
BibEntry(key) == <<"@", "{">> \o key \o <<",", "}">>

RECURSIVE MapBibEntry(_)
MapBibEntry(keys) == IF keys = <<>> THEN <<>> ELSE <<BibEntry(Head(keys))>> \o MapBibEntry(Tail(keys))

\* CitationGenerator._export_bibtex(papers, output_file)
export_bibtex(dir, papers) ==
    LET st == ExportFrom(papers, 1, [used_keys |-> {}, bibtex_entries |-> <<>>, citation_keys |-> EmptyDict])
    IN [dir |-> WriteFile(dir, BibFile, Join(MapBibEntry(st.bibtex_entries), <<"\n", "\n">>)),
        keys |-> st.bibtex_entries,
        citation_keys |-> st.citation_keys]

\* The sentences an analysis flags and the papers a search resolves.
Sentence1 == <<"A", " ", "b", ".">>
Sentence2 == <<"C", " ", "d">>
Year2021  == <<"2", "0", "2", "1">>
PaperPool ==
    { [authors |-> << <<"D","o","e",","," ","J">> >>, year |-> Year2021, pmid |-> <<"1">>, sentence |-> Sentence1],
      [authors |-> << <<"D","o","e",","," ","A">> >>, year |-> Year2021, pmid |-> <<"2">>, sentence |-> Sentence1],
      [authors |-> << <<"D","o","e">> >>, year |-> Year2021 \o <<"1">>, pmid |-> <<"3">>, sentence |-> Sentence2],
      [authors |-> <<>>, year |-> Year2021, pmid |-> <<"4">>, sentence |-> Sentence2] }

PaperLists == UNION { [1..n -> PaperPool] : n \in 0..MaxPapers }

InitExportBibtex ==
    /\ files = EmptyDir
    /\ \E papers \in PaperLists :
         call = [op |-> "_export_bibtex", done |-> FALSE, papers |-> papers,
                 keys |-> <<>>, citation_keys |-> EmptyDict]

CallExportBibtex ==
    /\ call.op = "_export_bibtex" /\ ~call.done
    /\ LET r == export_bibtex(files, call.papers)
       IN /\ files' = r.dir
          /\ call' = [call EXCEPT !.done = TRUE, !.keys = r.keys, !.citation_keys = r.citation_keys]
    /\ UNCHANGED <<pipeline_vars, figure_vars>>

MaxSentences == 2   \* entries in one analysis output

Nbsp == <<"&", "n", "b", "s", "p", ";">>

\* "; ".join([f"@{key}" for key in keys]) inside "[" and "]"
RECURSIVE AtKeys(_)
AtKeys(keys) == IF keys = <<>> THEN <<>> ELSE << <<"@">> \o Head(keys) >> \o AtKeys(Tail(keys))

CitationOf(keys) == <<"[">> \o Join(AtKeys(keys), <<";", " ">>) \o <<"]">>

\* The white space \s skips.
RegexSpace == {" ", "\n", "\r", "\t"}

\* The lookahead (?!\s*\[@) fails at position i: white space, then "[@".
RECURSIVE CitationAhead(_, _)
CitationAhead(text, i) ==
    IF i > Len(text) THEN FALSE
    ELSE IF text[i] \in RegexSpace THEN CitationAhead(text, i + 1)
    ELSE i + 1 <= Len(text) /\ text[i] = "[" /\ text[i + 1] = "@"

MatchesAt(text, pattern, i) ==
    /\ i + Len(pattern) - 1 <= Len(text)
    /\ SubSeq(text, i, i + Len(pattern) - 1) = pattern

\* The leftmost match of re.escape(pattern) + "(?!\s*\[@)", 0 without one.
FirstUncited(text, pattern) ==
    LET found == { i \in 1..Len(text) :
                     MatchesAt(text, pattern, i) /\ ~CitationAhead(text, i + Len(pattern)) }
    IN IF found = {} THEN 0 ELSE CHOOSE i \in found : \A j \in found : i <= j

\* re.sub(pattern, replacement, text, count=1)
SubOnce(text, pattern, replacement) ==
    LET i == FirstUncited(text, pattern)
    IN IF i = 0 THEN text
       ELSE SubSeq(text, 1, i - 1) \o replacement \o SubSeq(text, i + Len(pattern), Len(text))

punctuation_marks == {".", ",", ";"}

\* One turn of the loop of _update_chapter_citations over the entries.
CiteSentence(updated_text, entry, bibtex_keys) ==
    LET sentence == Strip(entry)
    IN IF sentence \notin DOMAIN bibtex_keys THEN updated_text
       ELSE LET citation == CitationOf(bibtex_keys[sentence])
            IN IF sentence # <<>> /\ sentence[Len(sentence)] \in punctuation_marks
               THEN SubOnce(updated_text, sentence,
                            SubSeq(sentence, 1, Len(sentence) - 1) \o Nbsp \o citation
                                \o <<sentence[Len(sentence)]>>)
               ELSE SubOnce(updated_text, sentence, sentence \o Nbsp \o citation)

RECURSIVE CiteFrom(_, _, _, _)
CiteFrom(updated_text, sentences, i, bibtex_keys) ==
    IF i > Len(sentences) THEN updated_text
    ELSE CiteFrom(CiteSentence(updated_text, sentences[i], bibtex_keys), sentences, i + 1, bibtex_keys)

\* CitationGenerator._update_chapter_citations(chapter_path, citation_data,
\* bibtex_keys, debug_folder) for the chapter of a category.
update_chapter_citations(dir, category, sentences, bibtex_keys) ==
    WriteFile(dir, CitedFile(category),
              CiteFrom(ReadText(dir[ChapterFile(category)]), sentences, 1, bibtex_keys))

\* Chapters in which the flagged sentences occur once, twice or not at all.
CitableTexts ==
    { Sentence1 \o <<" ">> \o Sentence2 \o <<".", " ">> \o Sentence1,
      Sentence2 \o <<" ", "x", " ">> \o Sentence2 \o <<" ">> \o Sentence1,
      <<"X", ".">> }

SentenceLists == UNION { [1..n -> {Sentence1, Sentence2}] : n \in 0..MaxSentences }

InitUpdateChapterCitations ==
    \E text \in CitableTexts, sentences \in SentenceLists, papers \in PaperLists :
       /\ files = WriteFile(EmptyDir, ChapterFile("introduction"), text)
       /\ call = [op |-> "_update_chapter_citations", done |-> FALSE,
                  sentences |-> sentences,
                  bibtex_keys |-> export_bibtex(EmptyDir, papers).citation_keys]

CallUpdateChapterCitations ==
    /\ call.op = "_update_chapter_citations" /\ ~call.done
    /\ files' = update_chapter_citations(files, "introduction", call.sentences, call.bibtex_keys)
    /\ call' = [call EXCEPT !.done = TRUE]
    /\ UNCHANGED <<pipeline_vars, figure_vars>>

InitCitation ==
    /\ PipelineIdle
    /\ FiguresIdle
    /\ (InitExportBibtex \/ InitUpdateChapterCitations)

NextCitation == CallExportBibtex \/ CallUpdateChapterCitations

SpecCitation == InitCitation /\ [][NextCitation]_vars

Doe2021 == <<"d", "o", "e", "2", "0", "2", "1">>

\* C16: the keys _export_bibtex persists for a list of papers are pairwise
\* distinct, one per paper in the papers' order: a paper whose base key no
\* earlier entry uses keeps it, any other gets the base key followed by the
\* smallest counter k >= 1 that no earlier entry uses; of two papers with
\* base key doe2021 the second is persisted as doe20211.
C16_BibKeysUnique ==
    (call.op = "_export_bibtex" /\ call.done) =>
        LET keys == call.keys
            Earlier(i) == { keys[j] : j \in 1..(i - 1) }
        IN /\ Len(keys) = Len(call.papers)
           /\ \A i, j \in 1..Len(keys) : keys[i] = keys[j] => i = j
           /\ \A i \in 1..Len(keys) :
                 LET base_key == generate_bibtex_key(call.papers[i])
                 IN IF base_key \notin Earlier(i)
                    THEN keys[i] = base_key
                    ELSE \E k \in 1..Len(keys) :
                            /\ keys[i] = base_key \o IntToStr(k)
                            /\ keys[i] \notin Earlier(i)
                            /\ \A m \in 1..(k - 1) : base_key \o IntToStr(m) \in Earlier(i)
           /\ (Len(keys) >= 2 /\ generate_bibtex_key(call.papers[1]) = Doe2021
                              /\ generate_bibtex_key(call.papers[2]) = Doe2021) =>
                 (keys[1] = Doe2021 /\ keys[2] = Doe2021 \o <<"1">>)
           /\ files[BibFile] = Join(MapBibEntry(keys), <<"\n", "\n">>)

\* Doe J 2021, Doe 20211 and Doe A 2021 in this order: the third paper's base
\* key and its base key with counter 1 are both taken.
C16_Witness ==
    /\ call.op = "_export_bibtex" /\ call.done
    /\ Len(call.keys) = 3
    /\ call.keys[1] = Doe2021
    /\ call.keys[2] = Doe2021 \o <<"1">>
    /\ call.keys[3] = Doe2021 \o <<"2">>
    /\ call.papers[1].authors # call.papers[3].authors

\* The places of a text at which a piece begins.
Occurrences(text, piece) == { i \in 1..Len(text) : MatchesAt(text, piece, i) }

FirstOccurrence(text, piece) ==
    CHOOSE i \in Occurrences(text, piece) : \A j \in Occurrences(text, piece) : i <= j

\* A text without the markers put into it.
RECURSIVE WithoutMarkers(_, _)
WithoutMarkers(text, markers) ==
    IF text = <<>> THEN <<>>
    ELSE IF \E m \in markers : MatchesAt(text, m, 1)
         THEN LET m == CHOOSE m \in markers : MatchesAt(text, m, 1)
              IN WithoutMarkers(SubSeq(text, Len(m) + 1, Len(text)), markers)
         ELSE <<text[1]>> \o WithoutMarkers(Tail(text), markers)

SentenceBody(sentence) ==
    IF sentence[Len(sentence)] \in punctuation_marks
    THEN SubSeq(sentence, 1, Len(sentence) - 1)
    ELSE sentence

\* C17: after _update_chapter_citations, every flagged sentence that has keys
\* and occurs in the chapter carries its marker at exactly one place of the
\* rewritten chapter, and that place is the end of the sentence's first
\* occurrence, however often the sentence occurs.
C17_MarkerOnceAtFirstOccurrence ==
    (call.op = "_update_chapter_citations" /\ call.done) =>
        LET text == files[ChapterFile("introduction")]
            cited == files[CitedFile("introduction")]
            flagged == { s \in Range(call.sentences) : s \in DOMAIN call.bibtex_keys }
            MarkerOf(s) == Nbsp \o CitationOf(call.bibtex_keys[s])
            markers == { MarkerOf(s) : s \in flagged }
        IN \A s \in flagged :
              Occurrences(text, s) # {} =>
                 /\ Cardinality(Occurrences(cited, MarkerOf(s))) = 1
                 /\ LET at == FirstOccurrence(cited, MarkerOf(s))
                    IN WithoutMarkers(SubSeq(cited, 1, at - 1), markers)
                         = SubSeq(text, 1, FirstOccurrence(text, s) + Len(SentenceBody(s)) - 1)

\* The same with an analysis output that lists no sentence twice.
C17_WhenListedOnce ==
    (call.op = "_update_chapter_citations" /\ call.done) =>
        ((\A i, j \in 1..Len(call.sentences) : call.sentences[i] = call.sentences[j] => i = j)
            => C17_MarkerOnceAtFirstOccurrence)

\* C20: the figure stage reports failure exactly when the folder holds no
\* `_chapter_cited.md` of a target chapter or no page image; a chapter whose
\* analysis or rewriting failed stops nothing: every chapter's task has
\* finished when the stage returns, those that succeeded have their
\* `_with_figures` file, and the stage reports success.
C20_FigureStageFailsOnMissingInputOnly ==
    (CurrentStage = 5 /\ 5 \in DOMAIN result) =>
        /\ result[5] = "falsy" <=> (ChaptersCited(files) = <<>> \/ figure_images(files) = {})
        /\ result[5] = "truthy" =>
              /\ { pool[i].task : i \in 1..Len(pool) } = Range(ChaptersCited(files))
              /\ \A i \in 1..Len(pool) :
                    /\ pool[i].state = "finished"
                    /\ pool[i].outcome = "ok" => Exists(files, WithFiguresFile(pool[i].task))

\* The introduction's task failed, the methods' task wrote its file, and the
\* stage reported success.
C20_Witness ==
    /\ CurrentStage = 5 /\ pc = "next" /\ result[5] = "truthy"
    /\ \E i, j \in 1..Len(pool) :
          /\ pool[i].task = "introduction" /\ pool[i].outcome = "exc"
          /\ pool[j].task = "methods" /\ pool[j].outcome = "ok"
    /\ ~Exists(files, WithFiguresFile("introduction"))
    /\ Exists(files, WithFiguresFile("methods"))

(***************************************************************************)
(* Figure Generator: the registry of figure ids shared by the chapter      *)
(* tasks (src/src/processors/figure_generator.py, _update_chapter_figures) *)
(***************************************************************************)
MaxRefs == 2        \* figure references met while one chapter is rewritten

\* The chapters rewritten in one run of the stage.
FigureChapters == {"introduction", "methods"}

\* os.path.basename(chapter_path).split('_')[0] for "<chapter>_chapter_cited.md"
chapter_name(chapter) == CategoryChars(chapter)

\* The file names the analysis refers to (two of them spell the same id).
FigureFilenames ==
    { <<"p","a","g","e","_","1",".","j","p","g">>,
      <<"p","a","g","e","-","1",".","j","p","g">>,
      <<"p","a","g","e","_","2",".","j","p","g">> }

DashUnlessKeyChar(ch) == IF ch \in LowerLetters \cup Digits THEN ch ELSE "-"

\* re.sub(r'[^a-z0-9]', '-', figure_filename.lower())
base_id(figure_filename) ==
    [i \in 1..Len(figure_filename) |-> DashUnlessKeyChar(LowerChar(figure_filename[i]))]

\* A registry keyed by the file name alone.
chapter_file_key_without_chapter(chapter, figure_filename) == figure_filename

\* f"{chapter_name}:{figure_filename}"
chapter_file_key(chapter, figure_filename) ==
    chapter_name(chapter) \o <<":">> \o figure_filename

\* f"{chapter_name[:3].lower()}-{base_id}"
candidate_id(chapter, figure_filename) ==
    Lower(SubSeq(chapter_name(chapter), 1, 3)) \o <<"-">> \o base_id(figure_filename)

DictValues(d) == { d[k] : k \in DOMAIN d }

\* `while f"{candidate_id}-{suffix}" in values: suffix += 1`
RECURSIVE NextSuffix(_, _, _)
NextSuffix(candidate, suffix, values) ==
    IF (candidate \o <<"-">> \o IntToStr(suffix)) \in values
    THEN NextSuffix(candidate, suffix + 1, values)
    ELSE suffix

\* The candidate taken as it is, whatever the registry holds.
new_figure_id_unchecked(candidate, values) == candidate

\* The id chosen for a new key against the values the registry holds.
new_figure_id(candidate, values) ==
    IF candidate \in values
    THEN candidate \o <<"-">> \o IntToStr(NextSuffix(candidate, 1, values))
    ELSE candidate

RefLists == UNION { [1..n -> FigureFilenames] : n \in 0..MaxRefs }

\* process_chapters has reset the registry and handed every chapter to
\* _process_single_chapter_for_figures: threads of a pool, or one loop.
InitFigures ==
    /\ files = EmptyDir
    /\ call = NoCall
    /\ \E threads \in {1, MaxThreads} :
         args = [run_all |-> FALSE, flags |-> {5}, threads |-> threads]
    /\ pc = "pool" /\ started = <<5>> /\ pool = <<>> /\ result = <<>>
    /\ global_figure_ids = EmptyDict
    /\ \E refs \in [FigureChapters -> RefLists] :
         workers = [c \in FigureChapters |->
                      [at |-> "lookup", refs |-> refs[c], next |-> 1,
                       figure_id |-> <<>>, assigned |-> <<>>]]

Working(w) == workers[w].at # "done" /\ (workers[w].next > 1 \/ workers[w].at # "lookup")

\* A chapter's task may take a step: it is under way, or a thread is free.
MayStep(w) ==
    /\ workers[w].at # "done"
    /\ Working(w) \/ Cardinality({ v \in DOMAIN workers : Working(v) }) < Workers(args)

CurrentRef(w) == workers[w].refs[workers[w].next]

\* The reference is dealt with: on to the next one, or out of the loops.
Advance(w, figure_id) ==
    [workers EXCEPT ![w].assigned = Append(@, [figure_filename |-> CurrentRef(w), figure_id |-> figure_id]),
                    ![w].next = @ + 1,
                    ![w].at = "lookup"]

\* A task that has no reference left has left the loops.
LeaveLoops(w) ==
    /\ workers[w].at = "lookup" /\ workers[w].next > Len(workers[w].refs)
    /\ workers' = [workers EXCEPT ![w].at = "done"]
    /\ UNCHANGED global_figure_ids

\* `if chapter_file_key in self.global_figure_ids:` and, if so, the read of
\* the id stored under it.
LookupKey(w) ==
    /\ workers[w].at = "lookup" /\ workers[w].next <= Len(workers[w].refs)
    /\ LET key == chapter_file_key(w, CurrentRef(w))
       IN IF key \in DOMAIN global_figure_ids
          THEN workers' = Advance(w, global_figure_ids[key])
          ELSE workers' = [workers EXCEPT ![w].at = "check"]
    /\ UNCHANGED global_figure_ids

\* `if candidate_id in self.global_figure_ids.values():` with the search for
\* a free suffix.
CheckCollision(w) ==
    /\ workers[w].at = "check"
    /\ workers' = [workers EXCEPT
                     ![w].figure_id = new_figure_id(candidate_id(w, CurrentRef(w)),
                                                    DictValues(global_figure_ids)),
                     ![w].at = "insert"]
    /\ UNCHANGED global_figure_ids

\* `self.global_figure_ids[chapter_file_key] = figure_id`
InsertId(w) ==
    /\ workers[w].at = "insert"
    /\ global_figure_ids' = DictPut(global_figure_ids, chapter_file_key(w, CurrentRef(w)),
                                    workers[w].figure_id)
    /\ workers' = Advance(w, workers[w].figure_id)

\* One step of one chapter's task; nothing but the registry and the task moves.
TaskLooksUp == \E w \in DOMAIN workers : MayStep(w) /\ LookupKey(w) /\ UNCHANGED <<unit_vars, pipeline_vars>>
TaskChecks  == \E w \in DOMAIN workers : MayStep(w) /\ CheckCollision(w) /\ UNCHANGED <<unit_vars, pipeline_vars>>
TaskInserts == \E w \in DOMAIN workers : MayStep(w) /\ InsertId(w) /\ UNCHANGED <<unit_vars, pipeline_vars>>
TaskLeaves  == \E w \in DOMAIN workers : MayStep(w) /\ LeaveLoops(w) /\ UNCHANGED <<unit_vars, pipeline_vars>>

NextFigures == TaskLooksUp \/ TaskChecks \/ TaskInserts \/ TaskLeaves

SpecFigures == InitFigures /\ [][NextFigures]_vars

\* C18: in one run of the figure stage, a file name referred to from two
\* chapters has a different figure id in each, and within a chapter every
\* reference to a file name has the id the first reference to it was given.
C18_FigureIdsPerChapter ==
    \A w \in DOMAIN workers :
       LET mine == workers[w].assigned
       IN /\ \A i, j \in 1..Len(mine) :
                mine[i].figure_filename = mine[j].figure_filename
                    => mine[i].figure_id = mine[j].figure_id
          /\ \A v \in DOMAIN workers \ {w} :
                \A i \in 1..Len(mine), j \in 1..Len(workers[v].assigned) :
                   mine[i].figure_filename = workers[v].assigned[j].figure_filename
                       => mine[i].figure_id # workers[v].assigned[j].figure_id

Page1 == <<"p","a","g","e","_","1",".","j","p","g">>

\* Both chapters, run by several threads, referred to page_1.jpg, the
\* introduction twice.
C18_Witness ==
    /\ DOMAIN workers = FigureChapters /\ args.threads > 1
    /\ \A w \in DOMAIN workers : workers[w].at = "done"
    /\ Len(workers["introduction"].assigned) = 2
    /\ \A i \in 1..2 : workers["introduction"].assigned[i].figure_filename = Page1
    /\ \E j \in 1..Len(workers["methods"].assigned) :
          workers["methods"].assigned[j].figure_filename = Page1

\* C19: with the chapters run concurrently, while one task stands between
\* its lookup of a key and its insertion of the new id, no other task reads
\* or writes the registry: every step taken then is that task's own.
C19_CheckThenInsertAtomic ==
    [][ \A w \in DOMAIN workers :
           (args.threads > 1 /\ workers[w].at \in {"check", "insert"}) =>
               \A v \in DOMAIN workers \ {w} : workers'[v] = workers[v] ]_vars

(***************************************************************************)
(* The content capability: GeminiAPI.generate_content and                  *)
(* OpenAIAPI.generate_content under tenacity's @retry                      *)
(***************************************************************************)
providers == {"gemini", "openai"}

\* stop=stop_after_attempt(3)
stop_after_attempt == 3

GeneratedText == <<"o", "k">>

\* What str(e) is for the exceptions the client raises.
TimeoutMessage      == <<"R", "e", "a", "d", " ", "T", "i", "m", "e", "o", "u", "t">>
DisconnectedMessage == <<"S", "e", "r", "v", "e", "r", " ", "d", "i", "s", "c", "o", "n", "n", "e", "c", "t", "e", "d">>
QuotaMessage        == <<"Q", "u", "o", "t", "a">>

\* What the provider's client does in one attempt: it answers with a text
\* (possibly the empty one) or raises.
Replies ==
    { [raises |-> FALSE, text |-> GeneratedText],
      [raises |-> FALSE, text |-> <<>>],
      [raises |-> TRUE, text |-> TimeoutMessage],
      [raises |-> TRUE, text |-> DisconnectedMessage],
      [raises |-> TRUE, text |-> QuotaMessage] }

\* `needle in haystack`
In(needle, haystack) == \E i \in 1..Len(haystack) : MatchesAt(haystack, needle, i)

\* gemini_api.py:73: "Server disconnected" in str(e) or "timeout" in str(e).lower()
NetworkError(message) ==
    \/ In(DisconnectedMessage, message)
    \/ In(<<"t", "i", "m", "e", "o", "u", "t">>, Lower(message))

\* The decorated function's body, run once: what it returns, or that it raises.
\* GeminiAPI re-raises the network errors and returns None on the others;
\* OpenAIAPI re-raises whatever was raised.
Attempt(provider, reply) ==
    IF ~reply.raises
    THEN [raises |-> FALSE,
          ret |-> IF provider = "gemini" /\ reply.text = <<>> THEN None ELSE reply.text]
    ELSE IF provider = "gemini" /\ ~NetworkError(reply.text)
         THEN [raises |-> FALSE, ret |-> None]
         ELSE [raises |-> TRUE, ret |-> None]

\* tenacity's loop from attempt attempt_number on: an attempt that returns ends
\* the call; one that raises is followed by another until stop_after_attempt,
\* and then GeminiAPI's retry_error_callback gives the call's value (the value
\* of logger.warning, None) while OpenAIAPI, which has no callback, raises
\* RetryError.
RECURSIVE Retrying(_, _, _)
Retrying(provider, replies, attempt_number) ==
    LET outcome == Attempt(provider, replies[attempt_number])
    IN IF ~outcome.raises
       THEN [raised |-> None, ret |-> outcome.ret, attempts |-> attempt_number]
       ELSE IF attempt_number >= stop_after_attempt
            THEN IF provider = "gemini"
                 THEN [raised |-> None, ret |-> None, attempts |-> attempt_number]
                 ELSE [raised |-> <<"RetryError">>, ret |-> None, attempts |-> attempt_number]
            ELSE Retrying(provider, replies, attempt_number + 1)

generate_content(provider, replies) == Retrying(provider, replies, 1)

ReplyLists == [1..stop_after_attempt -> Replies]

InitGenerateContent ==
    /\ PipelineIdle
    /\ FiguresIdle
    /\ files = EmptyDir
    /\ \E provider \in providers, replies \in ReplyLists :
          call = [op |-> "generate_content", done |-> FALSE, provider |-> provider,
                  replies |-> replies, raised |-> None, ret |-> None, attempts |-> 0]

CallGenerateContent ==
    /\ call.op = "generate_content" /\ ~call.done
    /\ LET r == generate_content(call.provider, call.replies)
       IN call' = [call EXCEPT !.done = TRUE, !.raised = r.raised, !.ret = r.ret,
                               !.attempts = r.attempts]
    /\ UNCHANGED <<files, pipeline_vars, figure_vars>>

NextCapability == CallGenerateContent

SpecCapability == InitGenerateContent /\ [][NextCapability]_vars

\* The messages the code classifies as network or timeout errors.
TimeoutClassified == {TimeoutMessage, DisconnectedMessage}

\* C23: for both providers one generate_content call makes at most 3
\* attempts, and a call whose every attempt fails with a timeout-classified
\* error returns None after the third attempt and raises nothing.
C23_ExhaustedRetriesReturnNull ==
    (call.op = "generate_content" /\ call.done) =>
        /\ call.attempts <= 3
        /\ (\A i \in 1..3 : call.replies[i].raises /\ call.replies[i].text \in TimeoutClassified) =>
              (call.attempts = 3 /\ call.raised = None /\ call.ret = None)

\* C24: for both providers, when an attempt fails with an error that is not
\* network- or timeout-classified, the call returns None on that attempt:
\* that attempt is the last one and nothing is raised.
C24_OtherErrorReturnsNullAtOnce ==
    (call.op = "generate_content" /\ call.done) =>
        \A i \in 1..call.attempts :
            (call.replies[i].raises /\ call.replies[i].text \notin TimeoutClassified) =>
                (call.attempts = i /\ call.raised = None /\ call.ret = None)

(***************************************************************************)
(* Stage 6: YamlMetadataGenerator                                          *)
(***************************************************************************)
\* What one generate_content call of a provider can come to (its value, or
\* that it raises), the text the provider generates being one of `texts`.
CapabilityOutcomes(provider, texts) ==
    { [raised |-> r.raised,
       ret |-> IF r.ret = GeneratedText THEN text ELSE r.ret] :
         r \in { generate_content(provider, replies) : replies \in ReplyLists },
         text \in texts }

ThesisTitle ==
    <<"T", "h", "e", "s", "i", "s", " ", "T", "i", "t", "l", "e">>
AuthorName ==
    <<"A", "u", "t", "h", "o", "r", " ", "N", "a", "m", "e">>

\* extract_metadata_from_intro without metadata.strip().
extract_metadata_from_intro_unstripped(metadata) ==
    LET defaults == [title |-> ThesisTitle, author |-> AuthorName, advisor |-> None]
    IN IF Truthy(metadata)
       THEN LET metadata_lines == Split(metadata, "\n")
            IN [title |-> IF Len(metadata_lines) >= 1 THEN Strip(metadata_lines[1]) ELSE defaults.title,
                author |-> IF Len(metadata_lines) >= 2 THEN Strip(metadata_lines[2]) ELSE defaults.author,
                advisor |-> IF Len(metadata_lines) >= 3 THEN Strip(metadata_lines[3]) ELSE defaults.advisor]
       ELSE defaults

\* extract_metadata_from_intro, from the capability's return value on.
extract_metadata_from_intro(metadata) ==
    LET defaults == [title |-> ThesisTitle, author |-> AuthorName, advisor |-> None]
    IN IF Truthy(metadata)
       THEN LET metadata_lines == Split(Strip(metadata), "\n")
            IN [title |-> IF Len(metadata_lines) >= 1 THEN Strip(metadata_lines[1]) ELSE defaults.title,
                author |-> IF Len(metadata_lines) >= 2 THEN Strip(metadata_lines[2]) ELSE defaults.author,
                advisor |-> IF Len(metadata_lines) >= 3 THEN Strip(metadata_lines[3]) ELSE defaults.advisor]
       ELSE defaults

\* The fixed strings returned when the capability gives nothing (for the two
\* Chinese ones, which are not ASCII, a stand-in of the same role).
AbstractFailed ==
    <<"A", "b", "s", "t", "r", "a", "c", "t", " ", "g", "e", "n", "e", "r", "a", "t", "i", "o",
      "n", " ", "f", "a", "i", "l", "e", "d", ".">>
ChineseAbstractFailed ==
    <<"z", "h", ":", " ", "a", "b", "s", "t", "r", "a", "c", "t", " ", "f", "a", "i", "l", "e",
      "d", ".">>
DefaultAcknowledgements ==
    <<"z", "h", ":", " ", "t", "h", "a", "n", "k", "s", ".">>

\* generate_english_abstract, generate_chinese_abstract and
\* generate_acknowledgements, from the capability's return value on.
generate_english_abstract(abstract) == IF Truthy(abstract) THEN abstract ELSE AbstractFailed
generate_chinese_abstract(chinese_abstract) ==
    IF Truthy(chinese_abstract) THEN chinese_abstract ELSE ChineseAbstractFailed
generate_acknowledgements(acknowledgements) ==
    IF Truthy(acknowledgements) THEN acknowledgements ELSE DefaultAcknowledgements

\* for line in text.strip().split('\n'): yaml_template += f"  {line}\n"
RECURSIVE Indented(_)
Indented(lines) ==
    IF lines = <<>> THEN <<>>
    ELSE <<" ", " ">> \o Head(lines) \o <<"\n">> \o Indented(Tail(lines))

YamlBlock(text) == Indented(Split(Strip(text), "\n"))

Quoted(key, value) == key \o <<":", " ", "\"">> \o value \o <<"\"", "\n">>

\* time.strftime("%Y-%m-%d") on the day of the run.
Today ==
    <<"2", "0", "2", "5", "-", "0", "6", "-", "0", "5">>

TemplateSettings ==
    <<"d", "o", "c", "u", "m", "e", "n", "t", "c", "l", "a", "s", "s", ":", " ", "r", "e", "p",
      "o", "r", "t", "\n", "t", "o", "c", ":", " ", "t", "r", "u", "e", "\n", "t", "o", "c",
      "-", "d", "e", "p", "t", "h", ":", " ", "2", "\n", "f", "i", "g", "P", "r", "e", "f",
      "i", "x", ":", " ", "F", "i", "g", "u", "r", "e", "\n", "e", "q", "n", "P", "r", "e",
      "f", "i", "x", ":", " ", "E", "q", "u", "a", "t", "i", "o", "n", "\n", "t", "b", "l",
      "P", "r", "e", "f", "i", "x", ":", " ", "T", "a", "b", "l", "e", "\n", "s", "e", "c",
      "P", "r", "e", "f", "i", "x", ":", " ", "S", "e", "c", "t", "i", "o", "n", "\n", "l",
      "i", "n", "k", "R", "e", "f", "e", "r", "e", "n", "c", "e", "s", ":", " ", "t", "r", "u",
      "e", "\n">>

\* The text _generate_thesis_metadata writes.
yaml_template(metadata, abstract, chinese_abstract, acknowledgements) ==
    <<"-", "-", "-", "\n">>
    \o Quoted(<<"t", "i", "t", "l", "e">>, metadata.title)
    \o Quoted(<<"a", "u", "t", "h", "o", "r">>, metadata.author)
    \o (IF Truthy(metadata.advisor)
        THEN Quoted(<<"s", "u", "p", "e", "r", "v", "i", "s", "o", "r">>, metadata.advisor)
        ELSE <<>>)
    \o Quoted(<<"d", "a", "t", "e">>, Today)
    \o TemplateSettings
    \o <<"a", "b", "s", "t", "r", "a", "c", "t", ":", " ", "|", "\n">> \o YamlBlock(abstract)
    \o <<"a", "b", "s", "t", "r", "a", "c", "t", "-", "z", "h", ":", " ", "|", "\n">>
    \o YamlBlock(chinese_abstract)
    \o <<"a", "c", "k", "n", "o", "w", "l", "e", "d", "g", "e", "m", "e", "n", "t", "s", "-", "z", "h",
         ":", " ", "|", "\n">>
    \o YamlBlock(acknowledgements)
    \o <<"-", "-", "-", "\n">>

\* ThreadPoolExecutor(max_workers=2)
max_workers == 2

\* An executor that runs one task at a time.
WorkerFreeOfOne(running) == running = 0

\* The executor starts a queued task while fewer than max_workers run.
WorkerFree(running) == running < max_workers

\* What the capability may answer to the extraction prompt.
MetadataResponses ==
    { <<"T", "\n", "A", "\n", "P">>,
      <<"T", "\n", "A">>,
      <<"T">>,
      <<"\n", " ", "T", " ", "\n", " ", "A", "\n", "P", " ", "\n", "x", "\n">>,
      <<"T", "\n", "\n", "P">> }

\* The folders the stage is run on: nothing to read, a cited introduction,
\* and a cited introduction with its section file.
MetadataFolders ==
    { EmptyDir,
      WriteFile(EmptyDir, CitedFile("introduction"), ChapterText("introduction")),
      WriteFile(WriteFile(EmptyDir, CitedFile("results"), ChapterText("results")),
                SectionFile("introduction"), PageText(1)) }

\* A capability call that has not been made.
NotYet == [raised |-> None, ret |-> <<"<not called>">>]

InitMetadata ==
    /\ FiguresIdle
    /\ args = [run_all |-> TRUE, flags |-> {}, threads |-> 1]
    /\ pc = "idle" /\ started = <<>> /\ result = <<>>
    /\ pool = <<>>
    /\ files \in MetadataFolders
    /\ \E provider \in providers :
          call = [op |-> "generate_metadata", at |-> "start", provider |-> provider,
                  response |-> NotYet, metadata |-> extract_metadata_from_intro(None),
                  acknowledgements |-> None, abstract |-> None,
                  translated |-> None, translation |-> NotYet, chinese_abstract |-> None,
                  ret |-> None]

\* An exception inside the try block: logged, and the stage returns False.
ReturnFalse == call' = [call EXCEPT !.at = "returned", !.ret = FALSE]

\* Lines 169-199: read the cited chapters, extract title, author and advisor
\* and submit the two tasks to the executor.
ExtractMetadata ==
    /\ call.op = "generate_metadata" /\ call.at = "start"
    /\ IF metadata_chapter_files(files) = <<>>
       THEN /\ ReturnFalse
            /\ UNCHANGED pool
       ELSE \E response \in CapabilityOutcomes(call.provider, MetadataResponses) :
               IF response.raised # None
               THEN /\ call' = [call EXCEPT !.at = "returned", !.ret = FALSE, !.response = response]
                    /\ UNCHANGED pool
               ELSE /\ call' = [call EXCEPT !.at = "pool", !.response = response,
                                            !.metadata = extract_metadata_from_intro(response.ret)]
                    /\ pool' = << [task |-> "acknowledgements", state |-> "queued", outcome |-> NotYet],
                                  [task |-> "abstract", state |-> "queued", outcome |-> NotYet] >>
    /\ UNCHANGED <<files, args, pc, started, result, figure_vars>>

\* A worker thread of the executor takes a submitted task.
MetadataTaskStart ==
    /\ call.op = "generate_metadata" /\ call.at = "pool"
    /\ WorkerFree(Cardinality({ j \in 1..Len(pool) : pool[j].state = "running" }))
    /\ \E i \in 1..Len(pool) :
          /\ pool[i].state = "queued"
          /\ \A j \in 1..(i - 1) : pool[j].state # "queued"
          /\ pool' = [pool EXCEPT ![i].state = "running"]
    /\ UNCHANGED <<files, call, args, pc, started, result, figure_vars>>

\* The task's capability call comes back.
MetadataTaskFinish ==
    /\ call.op = "generate_metadata" /\ call.at = "pool"
    /\ \E i \in 1..Len(pool) :
          /\ pool[i].state = "running"
          /\ \E outcome \in CapabilityOutcomes(call.provider, {GeneratedText}) :
                pool' = [pool EXCEPT ![i].state = "finished", ![i].outcome = outcome]
    /\ UNCHANGED <<files, call, args, pc, started, result, figure_vars>>

\* Lines 202-211: both futures' result() and the end of the with block, then
\* the call of generate_chinese_abstract(abstract).
CollectResults ==
    /\ call.op = "generate_metadata" /\ call.at = "pool"
    /\ \A i \in 1..Len(pool) : pool[i].state = "finished"
    /\ IF \E i \in 1..Len(pool) : pool[i].outcome.raised # None
       THEN ReturnFalse
       ELSE LET abstract == generate_english_abstract(pool[2].outcome.ret)
            IN call' = [call EXCEPT !.at = "translate",
                                    !.acknowledgements = generate_acknowledgements(pool[1].outcome.ret),
                                    !.abstract = abstract,
                                    !.translated = abstract]
    /\ UNCHANGED <<files, pool, args, pc, started, result, figure_vars>>

\* Lines 211-258: the translation comes back, the template is filled in and
\* written, and the stage returns True.
TranslateAndWrite ==
    /\ call.op = "generate_metadata" /\ call.at = "translate"
    /\ \E outcome \in CapabilityOutcomes(call.provider, {GeneratedText}) :
          IF outcome.raised # None
          THEN /\ call' = [call EXCEPT !.at = "returned", !.ret = FALSE, !.translation = outcome]
               /\ UNCHANGED files
          ELSE LET chinese_abstract == generate_chinese_abstract(outcome.ret)
               IN /\ call' = [call EXCEPT !.at = "returned", !.ret = TRUE, !.translation = outcome,
                                          !.chinese_abstract = chinese_abstract]
                  /\ files' = WriteFile(files, MetadataFile,
                                 yaml_template(call.metadata, call.abstract, chinese_abstract,
                                               call.acknowledgements))
    /\ UNCHANGED <<pool, args, pc, started, result, figure_vars>>

NextMetadata ==
    \/ ExtractMetadata
    \/ MetadataTaskStart
    \/ MetadataTaskFinish
    \/ CollectResults
    \/ TranslateAndWrite

SpecMetadata == InitMetadata /\ [][NextMetadata]_vars

(***************************************************************************)
(* Properties of the metadata stage                                        *)
(***************************************************************************)
\* The places where the lines of a text begin and end: before its first
\* character, at each newline, after its last character.
LineBreaks(text) == {0, Len(text) + 1} \cup { i \in 1..Len(text) : text[i] = "\n" }

\* Line k of a text (k = 1, 2, ...), without its newline.
LineOf(text, k) ==
    LET Nth(n) == CHOOSE b \in LineBreaks(text) :
                      Cardinality({ c \in LineBreaks(text) : c < b }) = n - 1
    IN SubSeq(text, Nth(k) + 1, Nth(k + 1) - 1)

LineCount(text) == Cardinality(LineBreaks(text)) - 1

\* C22: extract_metadata_from_intro takes line 1 of the stripped response as
\* the title, line 2 as the author and line 3 as the advisor (each without
\* the white space around it); a field whose line is missing keeps its
\* default ("Thesis Title", "Author Name", no advisor), and with no response
\* (None or the empty text) all three defaults are returned.
C22_PositionalLines ==
    (call.op = "generate_metadata" /\ call.response # NotYet /\ call.response.raised = None) =>
        LET response == call.response.ret
            stripped == Strip(response)
            Field(k, default) ==
                IF k <= LineCount(stripped) THEN Strip(LineOf(stripped, k)) ELSE default
        IN IF response = None \/ response = <<>>
           THEN call.metadata = [title |-> ThesisTitle, author |-> AuthorName, advisor |-> None]
           ELSE call.metadata = [title |-> Field(1, ThesisTitle),
                                 author |-> Field(2, AuthorName),
                                 advisor |-> Field(3, None)]

\* A response of four lines with white space around it and inside its lines.
C22_Witness ==
    /\ call.op = "generate_metadata" /\ call.at = "pool"
    /\ call.response.ret = <<"\n", " ", "T", " ", "\n", " ", "A", "\n", "P", " ", "\n", "x", "\n">>
    /\ call.metadata = [title |-> <<"T">>, author |-> <<"A">>, advisor |-> <<"P">>]

\* A capability call that was made and failed: it raised, or it returned
\* None or an empty text.
CallFailed(outcome) ==
    /\ outcome # NotYet
    /\ (outcome.raised # None \/ ~Truthy(outcome.ret))

\* C21: when the stage has returned and a capability call for the abstract,
\* the translated abstract or the acknowledgements had failed (by a null
\* result or by exhausted retries, for either provider), that field has its
\* fixed placeholder, the metadata file is written with it and the stage
\* reports success.
C21_PlaceholderOnFailure ==
    (call.op = "generate_metadata" /\ call.at = "returned" /\ pool # <<>>) =>
        LET failed == { pool[i].task : i \in { j \in 1..Len(pool) : CallFailed(pool[j].outcome) } }
                        \cup (IF CallFailed(call.translation) THEN {"chinese_abstract"} ELSE {})
        IN failed # {} =>
              /\ call.ret = TRUE
              /\ "acknowledgements" \in failed => call.acknowledgements = DefaultAcknowledgements
              /\ "abstract" \in failed => call.abstract = AbstractFailed
              /\ "chinese_abstract" \in failed => call.chinese_abstract = ChineseAbstractFailed
              /\ MetadataFile \in DOMAIN files
              /\ files[MetadataFile] = yaml_template(call.metadata, call.abstract,
                                                     call.chinese_abstract, call.acknowledgements)

\* C30: the executor holds exactly the two tasks acknowledgements and
\* abstract, a submitted task can always be taken by a worker whatever the
\* other task is doing, and the translation is started only when the abstract
\* task has finished, with that task's abstract as its input.
C30_TwoConcurrentThenTranslate ==
    (call.op = "generate_metadata") =>
        /\ pool # <<>> => { pool[i].task : i \in 1..Len(pool) } = {"acknowledgements", "abstract"}
                          /\ Len(pool) = 2
        /\ (call.at = "pool" /\ \E i \in 1..Len(pool) : pool[i].state = "queued") =>
              ENABLED MetadataTaskStart
        /\ (call.at = "translate" \/ call.translation # NotYet) =>
              /\ \A i \in 1..Len(pool) : pool[i].state = "finished"
              /\ call.translated =
                    (IF Truthy(pool[2].outcome.ret) THEN pool[2].outcome.ret ELSE AbstractFailed)

\* The abstract has come back while the acknowledgements are still being
\* generated: the second task submitted ran beside the first.
C30_Witness ==
    /\ call.op = "generate_metadata" /\ call.at = "pool"
    /\ pool[1].task = "acknowledgements" /\ pool[1].state = "running"
    /\ pool[2].task = "abstract" /\ pool[2].state = "finished"

(***************************************************************************)
(* What a failing run leaves behind                                        *)
(***************************************************************************)
\* The files a stage writes, by the naming contract.
OutputsOf(stage) ==
    CASE stage = 1 -> {ExtractedTextFile} \cup { ImageFile(n) : n \in 1..(MaxPages + 1) }
      [] stage = 2 -> { SectionFile(c) : c \in CategorySet }
      [] stage = 3 -> { ChapterFile(c) : c \in CategorySet }
      [] stage = 4 -> { CitedFile(c) : c \in CategorySet } \cup {BibFile}
      [] stage = 5 -> { WithFiguresFile(c) : c \in CategorySet }
      [] stage = 6 -> {MetadataFile}
      [] stage = 7 -> {OutputPdf}
      [] OTHER -> {}

\* C25: no step of a run deletes a file of the folder, and a file's content
\* changes only when the stage then running writes that file as its own
\* output; in particular the step in which a stage fails and process_pdf
\* raises rolls nothing back: every file written before it, by earlier
\* stages or by the tasks of the failing stage, is there unchanged.
C25_NothingRolledBack ==
    [][ /\ \A f \in DOMAIN files :
              /\ f \in DOMAIN files'
              /\ files'[f] # files[f] => f \in OutputsOf(CurrentStage')
        /\ (pc' = "raised" /\ CurrentStage' \in PoolStages) => files' = files ]_vars

\* A run from an empty folder that failed in the citation stage: the text,
\* the images, the section files and the chapters written before are there.
C25_Witness ==
    /\ pc = "raised" /\ started = <<1, 2, 3, 4>> /\ result[4] = "falsy"
    /\ Exists(files, ExtractedTextFile) /\ Exists(files, ImageFile(1))
    /\ Exists(files, SectionFile("introduction"))
    /\ Exists(files, ChapterFile("introduction"))
    /\ files[ChapterFile("introduction")] \in ChapterTexts("introduction")
    /\ \E i \in 1..Len(pool) : pool[i].outcome = "copy"
    /\ \A c \in CategorySet : Exists(files, CitedFile(c)) <=> c \notin citation_chapters
                                                            /\ Exists(files, ChapterFile(c))

(***************************************************************************)
(* One chapter: ChapterGenerator._generate_single_chapter_task             *)
(***************************************************************************)
\* str.replace(old, new)
RECURSIVE Replace(_, _, _)
Replace(text, old, new) ==
    IF text = <<>> THEN <<>>
    ELSE IF MatchesAt(text, old, 1)
         THEN new \o Replace(SubSeq(text, Len(old) + 1, Len(text)), old, new)
         ELSE <<text[1]>> \o Replace(Tail(text), old, new)

\* MathFormatter.format_content on the texts of the model, whose only
\* mathematics is the subscript H_2 (pattern 'subscripts': $H_{2}$).
format_content(content) ==
    Replace(content, <<"H", "_", "2">>, <<"$", "H", "_", "{", "2", "}", "$">>)

\* '```markdown\n' and '```' (the character ' stands for the backquote, which
\* a string of this language cannot hold).
MarkdownFence ==
    <<"'", "'", "'", "m", "a", "r", "k", "d", "o", "w", "n", "\n">>
Fence == <<"'", "'", "'">>

\* What the capability writes when it answers the three prompts.
DraftText == <<"D", " ", "H", "_", "2">>
ExpandedText == <<"E", " ", "H", "_", "2">>
PolishedTexts ==
    { <<"P", " ", "H", "_", "2">>,
      MarkdownFence \o <<"P", "\n">> \o Fence,
      Fence }

\* check_and_expand_chapter only for these categories.
expanded_categories == {"methods", "results"}

\* check_and_expand_chapter, from the capability's return value on.
check_and_expand_chapter(expanded_text, chapter_text) ==
    IF Truthy(expanded_text) THEN expanded_text ELSE chapter_text

\* polish_thesis_content, from the capability's return value on: the code
\* fences are removed and the text stripped, the mathematics is formatted (on
\* None format_content raises, which is caught), and an empty outcome gives
\* the chapter text back.
polish_thesis_content(polished_text, chapter_text) ==
    LET cleaned == IF Truthy(polished_text)
                   THEN Strip(Replace(Replace(polished_text, MarkdownFence, <<>>), Fence, <<>>))
                   ELSE polished_text
        formatted == IF cleaned = None THEN None ELSE format_content(cleaned)
    IN IF Truthy(formatted) THEN formatted ELSE chapter_text

ChapterSteps == {"draft", "expand", "polish"}

InitChapterTask ==
    /\ FiguresIdle
    /\ PipelineIdle
    /\ \E category \in {"introduction", "methods", "results"}, provider \in providers :
          /\ files \in { EmptyDir,
                         WriteFile(EmptyDir, SectionFile(category), BlankText),
                         WriteFile(EmptyDir, SectionFile(category), PageText(1)) }
          /\ call = [op |-> "_generate_single_chapter_task", at |-> "draft",
                     category |-> category, provider |-> provider,
                     steps |-> <<>>, outcomes |-> [s \in ChapterSteps |-> NotYet],
                     texts |-> [s \in ChapterSteps |-> None],
                     chapter_text |-> None, raised |-> None]

\* One capability call of the task: it raises out of the task, or the step
\* turns its value into the chapter text and the task goes on at `next`.
ChapterStep(step, outcome, chapter_text, next) ==
    IF outcome.raised # None
    THEN call' = [call EXCEPT !.at = "returned", !.steps = Append(@, step),
                              !.outcomes[step] = outcome, !.raised = outcome.raised,
                              !.chapter_text = None]
    ELSE call' = [call EXCEPT !.at = next, !.steps = Append(@, step),
                              !.outcomes[step] = outcome, !.texts[step] = chapter_text,
                              !.chapter_text = chapter_text]

\* Lines 177-194: the section file is read; without one, or with a blank one,
\* the task returns (category, None), and so it does when generate_chapter
\* gives nothing.
GenerateChapter ==
    /\ call.op = "_generate_single_chapter_task" /\ call.at = "draft"
    /\ IF ChapterOutcomes(files, call.category) = {"skip"}
       THEN call' = [call EXCEPT !.at = "returned"]
       ELSE \E outcome \in CapabilityOutcomes(call.provider, {DraftText}) :
               IF outcome.raised = None /\ ~Truthy(outcome.ret)
               THEN call' = [call EXCEPT !.at = "returned", !.steps = <<"draft">>,
                                         !.outcomes["draft"] = outcome]
               ELSE ChapterStep("draft", outcome, outcome.ret,
                                IF call.category \in expanded_categories THEN "expand" ELSE "polish")
    /\ UNCHANGED <<files, pipeline_vars, figure_vars>>

\* Lines 196-199
CheckAndExpandChapter ==
    /\ call.op = "_generate_single_chapter_task" /\ call.at = "expand"
    /\ \E outcome \in CapabilityOutcomes(call.provider, {ExpandedText}) :
          ChapterStep("expand", outcome,
                      check_and_expand_chapter(outcome.ret, call.chapter_text), "polish")
    /\ UNCHANGED <<files, pipeline_vars, figure_vars>>

\* Lines 201-202
PolishThesisContent ==
    /\ call.op = "_generate_single_chapter_task" /\ call.at = "polish"
    /\ \E outcome \in CapabilityOutcomes(call.provider, PolishedTexts) :
          ChapterStep("polish", outcome,
                      polish_thesis_content(outcome.ret, call.chapter_text), "persist")
    /\ UNCHANGED <<files, pipeline_vars, figure_vars>>

\* Lines 204-210
SaveChapter ==
    /\ call.op = "_generate_single_chapter_task" /\ call.at = "persist"
    /\ files' = WriteFile(files, ChapterFile(call.category), call.chapter_text)
    /\ call' = [call EXCEPT !.at = "returned", !.steps = Append(@, "persist")]
    /\ UNCHANGED <<pipeline_vars, figure_vars>>

NextChapterTask ==
    \/ GenerateChapter
    \/ CheckAndExpandChapter
    \/ PolishThesisContent
    \/ SaveChapter

SpecChapter == InitChapterTask /\ [][NextChapterTask]_vars

\* C27: the steps of a chapter task are taken in the order draft, expansion
\* (exactly for methods and results), polishing, persisting; the chapter file
\* exists only when polishing has returned and the file was then written; an
\* expansion or polishing call that failed leaves the text of the step before
\* it, and once the draft exists no such failure stops the task: it ends with
\* the chapter written.
C27_DraftExpandPolishPersist ==
    (call.op = "_generate_single_chapter_task") =>
        LET order == IF call.category \in {"methods", "results"}
                     THEN <<"draft", "expand", "polish", "persist">>
                     ELSE <<"draft", "polish", "persist">>
            before == IF call.category \in {"methods", "results"} THEN "expand" ELSE "draft"
        IN /\ Len(call.steps) <= Len(order)
           /\ call.steps = SubSeq(order, 1, Len(call.steps))
           /\ Exists(files, ChapterFile(call.category)) =>
                 (call.steps = order /\ files[ChapterFile(call.category)] = call.texts["polish"])
           /\ (CallFailed(call.outcomes["expand"]) /\ call.at # "returned") =>
                 call.texts["expand"] = call.texts["draft"]
           /\ (CallFailed(call.outcomes["polish"]) /\ call.at # "returned") =>
                 call.texts["polish"] = call.texts[before]
           /\ (call.at = "returned" /\ call.texts["draft"] # None) =>
                 (call.steps = order /\ call.raised = None)

\* A methods chapter whose expansion call failed and whose polishing call
\* failed: the draft itself is persisted.
C27_Witness ==
    /\ call.op = "_generate_single_chapter_task" /\ call.at = "returned"
    /\ call.category = "methods"
    /\ CallFailed(call.outcomes["expand"]) /\ CallFailed(call.outcomes["polish"])
    /\ Exists(files, ChapterFile("methods"))
    /\ files[ChapterFile("methods")] = DraftText

(***************************************************************************)
(* The bibliographic lookups of the citation stage                         *)
(* (CitationGenerator._generate_citations and the Entrez requests)         *)
(***************************************************************************)
\* The chapters whose tasks look papers up.
LookupChapters == {"introduction", "results"}

\* How many ids a search can return here: none (or an error), or two.
IdCounts == {0, 2}

\* For the flagged sentences of a chapter, the number of ids each search finds.
FoundLists == UNION { [1..n -> IdCounts] : n \in 0..MaxSentences }

\* process_chapters has handed the chapters to _process_single_chapter_task
\* (threads of a pool, or one loop) and their analyses are there.
InitLookups ==
    /\ FiguresIdle
    /\ files = EmptyDir
    /\ \E threads \in {1, MaxThreads} :
         args = [run_all |-> FALSE, flags |-> {4}, threads |-> threads]
    /\ pc = "pool" /\ started = <<4>> /\ result = <<>>
    /\ call = [op |-> "Entrez", in_flight |-> {}, answered |-> {}]
    /\ \E found \in [LookupChapters -> FoundLists] :
         pool = [c \in LookupChapters |->
                   [state |-> "queued", found |-> found[c], sentence |-> 1, request |-> 0]]

\* Entrez.esearch and Entrez.efetch never block: the next statement runs at once.
BlockedNever(c) == FALSE

\* Entrez.esearch and Entrez.efetch return when the answer is there: a task
\* with a request in flight stands still.
Blocked(c) == \E r \in call.in_flight : r.chapter = c

\* A worker (or, with threads <= 1, the loop) takes a chapter.
LookupTaskStart ==
    /\ call.op = "Entrez"
    /\ \E c \in DOMAIN pool :
          /\ pool[c].state = "queued"
          /\ Cardinality({ d \in DOMAIN pool : pool[d].state = "running" }) < Workers(args)
          /\ pool' = [pool EXCEPT ![c].state = "running"]
    /\ UNCHANGED <<files, call, args, pc, started, result, figure_vars>>

\* The task's next request: the search for the sentence (request 0), then one
\* fetch for each id found (requests 1, 2, ...), then the next sentence.
SendRequest ==
    /\ call.op = "Entrez"
    /\ \E c \in DOMAIN pool :
          /\ pool[c].state = "running" /\ ~Blocked(c)
          /\ pool[c].sentence <= Len(pool[c].found)
          /\ call' = [call EXCEPT !.in_flight = @ \cup
                         {[chapter |-> c, sentence |-> pool[c].sentence, request |-> pool[c].request]}]
          /\ pool' = IF pool[c].request < pool[c].found[pool[c].sentence]
                     THEN [pool EXCEPT ![c].request = @ + 1]
                     ELSE [pool EXCEPT ![c].sentence = @ + 1, ![c].request = 0]
    /\ UNCHANGED <<files, args, pc, started, result, figure_vars>>

\* PubMed answers a request (or the request fails, which the code takes as
\* an empty answer).
ReceiveAnswer ==
    /\ call.op = "Entrez"
    /\ \E r \in call.in_flight :
          call' = [call EXCEPT !.in_flight = @ \ {r}, !.answered = @ \cup {r}]
    /\ UNCHANGED <<files, pool, args, pc, started, result, figure_vars>>

\* The loop over the sentences is through: the task returns its papers.
LookupTaskDone ==
    /\ call.op = "Entrez"
    /\ \E c \in DOMAIN pool :
          /\ pool[c].state = "running" /\ ~Blocked(c)
          /\ pool[c].sentence > Len(pool[c].found)
          /\ pool' = [pool EXCEPT ![c].state = "done"]
    /\ UNCHANGED <<files, call, args, pc, started, result, figure_vars>>

NextLookups == LookupTaskStart \/ SendRequest \/ ReceiveAnswer \/ LookupTaskDone

SpecLookups == InitLookups /\ [][NextLookups]_vars

\* C28: within one chapter's task, for every thread setting, at most one
\* bibliographic request is in flight at any time, and a request is sent only
\* when every earlier one of the chapter is answered: the requests follow the
\* order search, fetches of sentence 1, search, fetches of sentence 2, ...,
\* and when a request for a sentence starts, the search and all fetches of
\* each sentence before it are complete.
C28_LookupsSequentialPerChapter ==
    [][ \A c \in LookupChapters :
           LET Mine(requests) == { r \in requests : r.chapter = c }
           IN /\ Cardinality(Mine(call'.in_flight)) <= 1
              /\ \A r \in Mine(call'.in_flight) \ Mine(call.in_flight) :
                    /\ Mine(call.in_flight) = {}
                    /\ \A q \in Mine(call.answered) :
                          \/ q.sentence < r.sentence
                          \/ q.sentence = r.sentence /\ q.request < r.request
                    /\ \A s \in 1..(r.sentence - 1) :
                          Cardinality({ q \in Mine(call.answered) : q.sentence = s })
                             = 1 + pool[c].found[s] ]_vars

\* Several threads: the results chapter is at its second sentence, the search
\* and both fetches of its first sentence answered, while a request of the
\* introduction is in flight as well.
C28_Witness ==
    /\ call.op = "Entrez" /\ args.threads > 1
    /\ [chapter |-> "results", sentence |-> 2, request |-> 0] \in call.in_flight
    /\ { [chapter |-> "results", sentence |-> 1, request |-> n] : n \in 0..2 } \subseteq call.answered
    /\ \E r \in call.in_flight : r.chapter = "introduction"

\* C29: during the citation stage at most one bibliographic request is in
\* flight at any time, for every thread setting and every set of chapters.
C29_LookupsNeverConcurrent ==
    (call.op = "Entrez") => Cardinality(call.in_flight) <= 1

(***************************************************************************)
(* main.setup_debug_folder and the paths of os.path                        *)
(***************************************************************************)
\* The last place of a character in a string, 0 without one.
LastIndex(s, ch) ==
    LET at == { i \in 1..Len(s) : s[i] = ch }
    IN IF at = {} THEN 0 ELSE CHOOSE i \in at : \A j \in at : j <= i

\* os.path.basename(p)
basename(p) == SubSeq(p, LastIndex(p, "/") + 1, Len(p))

\* os.path.dirname(p): up to the last slash, without trailing slashes unless
\* it consists of slashes only.
dirname(p) ==
    LET head == SubSeq(p, 1, LastIndex(p, "/"))
    IN IF head # <<>> /\ \E i \in 1..Len(head) : head[i] # "/"
       THEN RStripChars(head, {"/"})
       ELSE head

\* os.path.splitext(p)[0] for a name without slashes: cut at the last dot,
\* unless only dots stand before it.
splitext_root(p) ==
    LET dotIndex == LastIndex(p, ".")
    IN IF dotIndex > 1 /\ \E i \in 1..(dotIndex - 1) : p[i] # "."
       THEN SubSeq(p, 1, dotIndex - 1)
       ELSE p

\* os.path.join(a, b)
join(a, b) ==
    IF b # <<>> /\ b[1] = "/" THEN b
    ELSE IF a = <<>> \/ a[Len(a)] = "/" THEN a \o b
    ELSE a \o <<"/">> \o b

\* What a path of the file system holds when it is a directory.
Directory == <<"<dir>">>

\* The directories above a path that os.makedirs creates with it.
RECURSIVE Ancestors(_)
Ancestors(path) ==
    LET head == dirname(path)
    IN IF head = <<>> \/ head = path THEN {} ELSE {head} \cup Ancestors(head)

\* os.makedirs(path): FileExistsError whenever the path exists.
makedirs_not_exist_ok(fs, path) ==
    IF path \in DOMAIN fs
    THEN [fs |-> fs, raised |-> <<"FileExistsError">>]
    ELSE [fs |-> [p \in (DOMAIN fs) \cup {path} \cup Ancestors(path) |->
                     IF p \in DOMAIN fs THEN fs[p] ELSE Directory],
          raised |-> None]

\* os.makedirs(path, exist_ok=True): an existing directory is left as it is,
\* an existing file at the path is a FileExistsError.
makedirs(fs, path) ==
    IF path \in DOMAIN fs
    THEN [fs |-> fs, raised |-> IF fs[path] = Directory THEN None ELSE <<"FileExistsError">>]
    ELSE [fs |-> [p \in (DOMAIN fs) \cup {path} \cup Ancestors(path) |->
                     IF p \in DOMAIN fs THEN fs[p] ELSE Directory],
          raised |-> None]

debug_suffix == <<"_", "d", "e", "b", "u", "g">>

\* setup_debug_folder(pdf_path): the path it computes.
debug_folder(pdf_path) ==
    join(dirname(pdf_path), splitext_root(basename(pdf_path)) \o debug_suffix)

PdfPaths ==
    { <<"d", "/", "s", ".", "p", "d", "f">>,
      <<"s", ".", "p", "d", "f">>,
      <<"/", "s", ".", "p", "d", "f">>,
      <<"d", "/", "a", ".", "b", ".", "p", "d", "f">>,
      <<"d", "/", "s">>,
      <<"d", "/", ".", "p", "d", "f">>,
      <<"a", "/", "d", "/", "s", ".", "p", "d", "f">> }

PdfBytesOf(pdf_path) == [p \in {pdf_path} \cup Ancestors(pdf_path) |->
                            IF p = pdf_path THEN PdfBytes ELSE Directory]

\* The files a run leaves in the debug folder.
DebugFileNames == { <<"e", ".", "t", "x", "t">>, <<"t", ".", "p", "d", "f">> }

\* The file system before the first call: the PDF alone; the PDF with the
\* debug folder of an earlier run; the PDF with a regular file where the
\* debug folder would be.
InitSetupDebugFolder ==
    /\ FiguresIdle
    /\ PipelineIdle
    /\ \E pdf_path \in PdfPaths :
          /\ call = [op |-> "setup_debug_folder", pdf_path |-> pdf_path, calls |-> 0,
                     ret |-> None, first |-> None, raised |-> None,
                     before |-> PdfBytesOf(pdf_path)]
          /\ files \in
               { PdfBytesOf(pdf_path),
                 makedirs(PdfBytesOf(pdf_path), debug_folder(pdf_path)).fs,
                 [p \in DOMAIN PdfBytesOf(pdf_path) \cup {debug_folder(pdf_path)} |->
                     IF p = debug_folder(pdf_path) THEN <<"x">> ELSE PdfBytesOf(pdf_path)[p]] }

\* main.py:19-24, called for the same PDF a first and a second time.
CallSetupDebugFolder ==
    /\ call.op = "setup_debug_folder" /\ call.calls < 2 /\ call.raised = None
    /\ LET path == debug_folder(call.pdf_path)
           made == makedirs(files, path)
       IN /\ files' = made.fs
          /\ call' = [call EXCEPT !.calls = @ + 1,
                                  !.ret = IF made.raised = None THEN path ELSE None,
                                  !.first = IF call.calls = 0 THEN path ELSE @,
                                  !.raised = made.raised,
                                  !.before = files]
    /\ UNCHANGED <<pipeline_vars, figure_vars>>

\* Between the calls a run writes a file into the folder.
WriteIntoDebugFolder ==
    /\ call.op = "setup_debug_folder" /\ call.calls = 1 /\ call.raised = None
    /\ \E name \in DebugFileNames :
          /\ join(call.ret, name) \notin DOMAIN files
          /\ files' = [p \in (DOMAIN files) \cup {join(call.ret, name)} |->
                          IF p \in DOMAIN files THEN files[p] ELSE name]
    /\ UNCHANGED <<call, pipeline_vars, figure_vars>>

NextSetup == CallSetupDebugFolder \/ WriteIntoDebugFolder

SpecSetup == InitSetupDebugFolder /\ [][NextSetup]_vars

\* C26: when setup_debug_folder returns, its value is the path made of the
\* PDF's directory and of the PDF's base name without extension followed by
\* "_debug", and a directory exists there; a second call for the same PDF
\* returns the same path without error and leaves every file and directory
\* as it was, the folder's contents included.
C26_DebugFolderIdempotent ==
    (call.op = "setup_debug_folder" /\ call.calls >= 1) =>
        LET p == call.pdf_path
            slash == LastIndex(p, "/")
            name == SubSeq(p, slash + 1, Len(p))
            dot == LastIndex(name, ".")
            stem == IF dot > 1 /\ \E i \in 1..(dot - 1) : name[i] # "."
                    THEN SubSeq(name, 1, dot - 1) ELSE name
            expected == (IF slash = 0 THEN <<>>
                         ELSE IF slash = 1 THEN <<"/">>
                         ELSE SubSeq(p, 1, slash - 1) \o <<"/">>) \o stem \o debug_suffix
        IN /\ call.raised = None =>
                 /\ call.ret = expected
                 /\ call.ret \in DOMAIN files /\ files[call.ret] = Directory
           /\ (call.calls = 2) =>
                 /\ call.raised = None
                 /\ call.ret = call.first
                 /\ DOMAIN files = DOMAIN call.before
                 /\ \A q \in DOMAIN files : files[q] = call.before[q]

\* The second call for d/a.b.pdf, made when the folder d/a.b_debug holds
\* two files.
C26_Witness ==
    /\ call.op = "setup_debug_folder" /\ call.calls = 2
    /\ call.pdf_path = <<"d", "/", "a", ".", "b", ".", "p", "d", "f">>
    /\ call.ret = <<"d", "/", "a", ".", "b", "_", "d", "e", "b", "u", "g">>
    /\ \A name \in DebugFileNames : join(call.ret, name) \in DOMAIN files

(***************************************************************************)
(* FigureGenerator._update_chapter_figures: the chapter rewritten with its *)
(* figure blocks (src/src/processors/figure_generator.py:542-672)          *)
(***************************************************************************)
MaxParagraphs == 3  \* paragraphs of the chapter that is rewritten

ParagraphBreak == <<"\n", "\n">>

\* Where the longest match of \n\s*\n that begins at i ends, 0 without one.
BreakEnd(text, i) ==
    LET ends == { j \in (i + 1)..Len(text) :
                    text[j] = "\n" /\ \A k \in (i + 1)..(j - 1) : text[k] \in RegexSpace }
    IN IF text[i] # "\n" \/ ends = {} THEN 0
       ELSE CHOOSE j \in ends : \A k \in ends : k <= j

\* re.split(r'\n\s*\n', text)
RECURSIVE SplitParagraphsFrom(_, _, _, _)
SplitParagraphsFrom(text, i, cur, acc) ==
    IF i > Len(text) THEN Append(acc, cur)
    ELSE IF BreakEnd(text, i) > 0
         THEN SplitParagraphsFrom(text, BreakEnd(text, i) + 1, <<>>, Append(acc, cur))
         ELSE SplitParagraphsFrom(text, i + 1, Append(cur, text[i]), acc)

split_paragraphs(text) == SplitParagraphsFrom(text, 1, <<>>, <<>>)

\* `sentence in paragraph`
Contains(paragraph, sentence) == sentence = <<>> \/ In(sentence, paragraph)

FigPrefix == <<"@", "f", "i", "g", ":">>

\* f" (@fig:{figure_id})"
reference_text(figure_id) == <<" ", "(">> \o FigPrefix \o figure_id \o <<")">>

\* f"\n\n![{figure_legend}]({figure_filename}){{#fig:{figure_id}}}\n"
figure_markdown(figure_legend, figure_filename, figure_id) ==
    <<"\n", "\n", "!", "[">> \o figure_legend \o <<"]", "(">> \o figure_filename
        \o <<")", "{", "#", "f", "i", "g", ":">> \o figure_id \o <<"}", "\n">>

\* re.sub(re.escape(pattern), replacement, text, count=1) for a pattern
\* without mathematics.
SubFirst(text, pattern, replacement) ==
    IF Occurrences(text, pattern) = {} THEN text
    ELSE LET i == FirstOccurrence(text, pattern)
         IN SubSeq(text, 1, i - 1) \o replacement \o SubSeq(text, i + Len(pattern), Len(text))

sentence_end_marks == {".", "?", "!"}

\* Every reference gets its block, inserted before or not.
not_inserted_never_checked(figure_filename, inserted_figures) == TRUE

\* `if figure_filename not in inserted_figures:`
not_inserted(figure_filename, inserted_figures) == figure_filename \notin inserted_figures

\* One turn of the inner loop: an entry of figure_references met in a
\* paragraph.  sentence.rstrip()[-1] of an empty sentence is an IndexError.
FigureEntry(st, paragraph, entry, chapter) ==
    LET sentence == Strip(entry.sentence)
        key == chapter_file_key(chapter, entry.figure_filename)
        figure_id == IF key \in DOMAIN st.ids THEN st.ids[key]
                     ELSE new_figure_id(candidate_id(chapter, entry.figure_filename),
                                        DictValues(st.ids))
        ids == DictPut(st.ids, key, figure_id)
    IN IF st.raised \/ ~Contains(paragraph, sentence) THEN st
       ELSE IF ~In(FigPrefix, sentence) /\ sentence = <<>>
            THEN [st EXCEPT !.ids = ids, !.raised = TRUE]
       ELSE [st EXCEPT
               !.ids = ids,
               !.updated_paragraph =
                   IF In(FigPrefix, sentence) THEN @
                   ELSE IF sentence[Len(sentence)] \in sentence_end_marks
                        THEN SubFirst(@, sentence,
                                      SubSeq(sentence, 1, Len(sentence) - 1)
                                          \o reference_text(figure_id)
                                          \o <<sentence[Len(sentence)]>>)
                        ELSE SubFirst(@, sentence, sentence \o reference_text(figure_id)),
               !.paragraph_figure_list =
                   IF not_inserted(entry.figure_filename, st.inserted_figures)
                   THEN Append(@, figure_markdown(entry.figure_legend, entry.figure_filename,
                                                  figure_id))
                   ELSE @,
               !.inserted_figures = @ \cup {entry.figure_filename}]

RECURSIVE FigureEntriesFrom(_, _, _, _, _)
FigureEntriesFrom(st, paragraph, figure_references, j, chapter) ==
    IF j > Len(figure_references) THEN st
    ELSE FigureEntriesFrom(FigureEntry(st, paragraph, figure_references[j], chapter),
                           paragraph, figure_references, j + 1, chapter)

\* The first pass over the paragraphs.
RECURSIVE FigureParagraphsFrom(_, _, _, _, _)
FigureParagraphsFrom(st, paragraphs, i, figure_references, chapter) ==
    IF i > Len(paragraphs) \/ st.raised THEN st
    ELSE LET after == FigureEntriesFrom(
                          [st EXCEPT !.updated_paragraph = paragraphs[i],
                                     !.paragraph_figure_list = <<>>],
                          paragraphs[i], figure_references, 1, chapter)
         IN FigureParagraphsFrom(
                [after EXCEPT !.updated_paragraphs = Append(@, after.updated_paragraph),
                              !.paragraph_figures = Append(@, after.paragraph_figure_list)],
                paragraphs, i + 1, figure_references, chapter)

\* The second pass: the paragraphs with their figures after them.
RECURSIVE FinalTextFrom(_, _, _)
FinalTextFrom(updated_paragraphs, paragraph_figures, i) ==
    IF i > Len(updated_paragraphs) THEN <<>>
    ELSE updated_paragraphs[i] \o Flatten(paragraph_figures[i])
            \o (IF i < Len(updated_paragraphs) THEN ParagraphBreak ELSE <<>>)
            \o FinalTextFrom(updated_paragraphs, paragraph_figures, i + 1)

\* _update_chapter_figures(chapter_path, figure_data, debug_folder): the
\* folder and the registry after it; an exception is logged and no file is
\* written.
update_chapter_figures(dir, ids, chapter, figure_references) ==
    LET text == ReadText(dir[CitedFile(chapter)])
        st == FigureParagraphsFrom(
                  [updated_paragraph |-> <<>>, paragraph_figure_list |-> <<>>,
                   updated_paragraphs |-> <<>>, paragraph_figures |-> <<>>,
                   inserted_figures |-> {}, ids |-> ids, raised |-> FALSE],
                  split_paragraphs(text), 1, figure_references, chapter)
    IN [dir |-> IF st.raised THEN dir
                ELSE WriteFile(dir, WithFiguresFile(chapter),
                               FinalTextFrom(st.updated_paragraphs, st.paragraph_figures, 1)),
        ids |-> st.ids]

ParagraphTexts ==
    { Sentence1, Sentence2, Sentence2 \o <<" ", "x", ".", " ">> \o Sentence1 }

ChapterParagraphs == UNION { [1..n -> ParagraphTexts] : n \in 1..MaxParagraphs }

Legend == <<"L">>

FigureEntries ==
    { [sentence |-> s, figure_filename |-> f, figure_legend |-> Legend] :
        s \in {Sentence1, <<" ">> \o Sentence2, <<" ">>},
        f \in { <<"p","a","g","e","_","1",".","j","p","g">>,
                <<"p","a","g","e","_","2",".","j","p","g">> } }

FigureReferenceLists == UNION { [1..n -> FigureEntries] : n \in 0..MaxRefs }

InitUpdateChapterFigures ==
    /\ PipelineIdle
    /\ FiguresIdle
    /\ \E paragraphs \in ChapterParagraphs, figure_references \in FigureReferenceLists :
          /\ files = WriteFile(EmptyDir, CitedFile("results"), Join(paragraphs, ParagraphBreak))
          /\ call = [op |-> "_update_chapter_figures", done |-> FALSE,
                     figure_references |-> figure_references]

CallUpdateChapterFigures ==
    /\ call.op = "_update_chapter_figures" /\ ~call.done
    /\ LET r == update_chapter_figures(files, EmptyDict, "results", call.figure_references)
       IN /\ files' = r.dir
          /\ global_figure_ids' = r.ids
    /\ call' = [call EXCEPT !.done = TRUE]
    /\ UNCHANGED <<pipeline_vars, workers>>

NextEmbed == CallUpdateChapterFigures

SpecEmbed == InitUpdateChapterFigures /\ [][NextEmbed]_vars

\* The blocks and reference marks a rewritten chapter can hold.
FigureBlocks ==
    { figure_markdown(Legend, e.figure_filename, id) :
        e \in FigureEntries, id \in DictValues(global_figure_ids) }

ReferenceMarks == { reference_text(id) : id \in DictValues(global_figure_ids) }

\* The paragraphs of the chapter with a sentence that refers to a file name.
ReferringParagraphs(paragraphs, figure_filename) ==
    { i \in 1..Len(paragraphs) :
        \E j \in 1..Len(call.figure_references) :
           /\ call.figure_references[j].figure_filename = figure_filename
           /\ Contains(paragraphs[i], Strip(call.figure_references[j].sentence)) }

\* C31: in a rewritten chapter every file name has at most one figure block,
\* however many entries and paragraphs refer to it; the block stands after
\* the first paragraph with a sentence that refers to it and before the next
\* paragraph; and without its blocks and reference marks the chapter is the
\* original one, its paragraphs in their order.
C31_OneBlockAfterFirstParagraph ==
    (call.op = "_update_chapter_figures" /\ call.done /\ Exists(files, WithFiguresFile("results"))) =>
        LET final_text == files[WithFiguresFile("results")]
            text == files[CitedFile("results")]
            paragraphs == split_paragraphs(text)
            added == FigureBlocks \cup ReferenceMarks
        IN /\ WithoutMarkers(final_text, added) = text
           /\ \A e \in FigureEntries :
                 LET opening == <<"\n", "\n", "!", "[">> \o Legend \o <<"]", "(">>
                                    \o e.figure_filename \o <<")">>
                     blocks == Occurrences(final_text, opening)
                     referring == ReferringParagraphs(paragraphs, e.figure_filename)
                 IN /\ Cardinality(blocks) <= 1
                    /\ (referring = {}) <=> (blocks = {})
                    /\ \A p \in blocks :
                          LET first == CHOOSE i \in referring : \A k \in referring : i <= k
                          IN WithoutMarkers(SubSeq(final_text, 1, p - 1), added)
                                = Join(SubSeq(paragraphs, 1, first), ParagraphBreak)

\* A chapter of three paragraphs; two entries refer to page_1.jpg, the first
\* by a sentence of the second and third paragraphs, the second by a
\* sentence of the first and third: the one block follows the first paragraph.
C31_Witness ==
    /\ call.op = "_update_chapter_figures" /\ call.done
    /\ Len(call.figure_references) = 2
    /\ \A j \in 1..2 : call.figure_references[j].figure_filename = Page1
    /\ call.figure_references[1].sentence = Sentence1
    /\ call.figure_references[2].sentence = <<" ">> \o Sentence2
    /\ Exists(files, WithFiguresFile("results"))
    /\ split_paragraphs(files[CitedFile("results")])
          = <<Sentence2, Sentence1, Sentence2 \o <<" ", "x", ".", " ">> \o Sentence1>>
    /\ Occurrences(files[WithFiguresFile("results")],
                   figure_markdown(Legend, Page1, global_figure_ids[chapter_file_key("results", Page1)]))
          = {Len(Sentence2 \o reference_text(global_figure_ids[chapter_file_key("results", Page1)])) + 1}

(***************************************************************************)
(* The registry of figure ids during one run of the figure stage           *)
(***************************************************************************)
\* C32: within one run of the figure stage, a key of the registry keeps its
\* value and stays in the registry at every step of every chapter task.
C32_RegistryEntriesImmutable ==
    [][ \A key \in DOMAIN global_figure_ids :
           /\ key \in DOMAIN global_figure_ids'
           /\ global_figure_ids'[key] = global_figure_ids[key] ]_vars

\* With several threads, a task is about to insert an id while the registry
\* holds a key of the other chapter, and it has met one of its own keys again.
C32_Witness ==
    /\ DOMAIN workers = FigureChapters /\ args.threads > 1
    /\ workers["methods"].at = "insert"
    /\ chapter_file_key("introduction", Page1) \in DOMAIN global_figure_ids
    /\ workers["introduction"].at = "done"
    /\ Len(workers["introduction"].assigned) = 2
    /\ \A i \in 1..2 : workers["introduction"].assigned[i].figure_filename = Page1

\* C33: at every moment of the concurrent chapter tasks, two different keys
\* of the registry have different ids, file names of the same slug included.
C33_RegistryIdsDistinct ==
    \A k1, k2 \in DOMAIN global_figure_ids :
       k1 # k2 => global_figure_ids[k1] # global_figure_ids[k2]

\* Run by several threads, the introduction has registered page_1.jpg and
\* page-1.jpg, which spell the same slug, and the methods page_1.jpg.
C33_Witness ==
    /\ DOMAIN workers = FigureChapters /\ args.threads > 1
    /\ { chapter_file_key("introduction", Page1),
         chapter_file_key("introduction", <<"p","a","g","e","-","1",".","j","p","g">>),
         chapter_file_key("methods", Page1) } \subseteq DOMAIN global_figure_ids
    /\ global_figure_ids[chapter_file_key("introduction", <<"p","a","g","e","-","1",".","j","p","g">>)]
          = candidate_id("introduction", Page1) \o <<"-", "1">>

(***************************************************************************)
(* ChapterGenerator.generate_all_chapters: the loop (threads <= 1) and the *)
(* pool (threads > 1) on the same sections and capability outcomes         *)
(***************************************************************************)
SectionText == <<"s">>

\* What the capability comes to for a category's chapter: a text, no text,
\* or an exception raised out of the task.
CapabilityOutcomeNames == {"ok", "none", "exc"}

\* The outcome of _generate_single_chapter_task for a category.
TaskOutcome(dir, category, outcomes) ==
    IF ChapterOutcomes(dir, category) = {"skip"} THEN "skip" ELSE outcomes[category]

\* `for category in self.categories:` with the task called directly: an
\* exception leaves the loop and generate_all_chapters.
RECURSIVE SequentialChaptersFrom(_, _, _, _)
SequentialChaptersFrom(dir, outcomes, i, generated_chapters) ==
    IF i > Len(categories)
    THEN [dir |-> dir, ret |-> generated_chapters, raised |-> FALSE]
    ELSE LET category == categories[i]
             outcome == TaskOutcome(dir, category, outcomes)
         IN IF outcome = "exc"
            THEN [dir |-> dir, ret |-> generated_chapters, raised |-> TRUE]
            ELSE IF outcome = "ok"
            THEN SequentialChaptersFrom(
                     WriteFile(dir, ChapterFile(category), ChapterText(category)),
                     outcomes, i + 1,
                     DictPut(generated_chapters, category, ChapterText(category)))
            ELSE SequentialChaptersFrom(dir, outcomes, i + 1, generated_chapters)

\* generate_all_chapters(working_dir, threads) with threads <= 1
generate_all_chapters_sequential(dir, outcomes) ==
    SequentialChaptersFrom(dir, outcomes, 1, EmptyDict)

SectionCategories == {"introduction", "methods", "results"}

SectionFolder(present) ==
    [n \in { SectionFile(c) : c \in present } |-> SectionText]

\* One folder of section files and one outcome per capability call, given to
\* generate_all_chapters.
InitGenerateAll ==
    /\ FiguresIdle
    /\ \E present \in SUBSET SectionCategories, threads \in {1, MaxThreads} :
         \E outcomes \in [present -> CapabilityOutcomeNames] :
            /\ files = SectionFolder(present)
            /\ args = [run_all |-> FALSE, flags |-> {3}, threads |-> threads]
            /\ call = [op |-> "generate_all_chapters", outcomes |-> outcomes,
                       section_files |-> SectionFolder(present),
                       generated_chapters |-> EmptyDict]
    /\ pc = "pool" /\ started = <<3>> /\ pool = NewPool(categories) /\ result = <<>>

\* A task ends with the outcome of its category; its result is collected
\* into generated_chapters, its exception caught or not.
FinishGenerateTask ==
    /\ call.op = "generate_all_chapters" /\ pc = "pool"
    /\ \E i \in Running(pool) :
         LET category == pool[i].task
             outcome == TaskOutcome(files, category, call.outcomes)
         IN /\ pool' = Finished(pool, i, outcome)
            /\ files' = IF outcome = "ok"
                        THEN WriteFile(files, ChapterFile(category), ChapterText(category))
                        ELSE files
            /\ call' = IF outcome = "ok"
                       THEN [call EXCEPT !.generated_chapters =
                                DictPut(@, category, ChapterText(category))]
                       ELSE call
            /\ pc' = IF outcome = "exc" /\ ~TaskExceptionCaught(args) THEN "raised" ELSE pc
    /\ UNCHANGED <<args, started, result, figure_vars>>

\* `return generated_chapters`
ReturnGenerated ==
    /\ call.op = "generate_all_chapters" /\ pc = "pool"
    /\ PoolDrained(pool)
    /\ pc' = "returned"
    /\ UNCHANGED <<files, call, args, started, pool, result, figure_vars>>

NextGenerateAll == TaskStart \/ FinishGenerateTask \/ ReturnGenerated

SpecGenerateAll == InitGenerateAll /\ [][NextGenerateAll]_vars

\* C37: on the same section files and capability outcomes, the call with
\* threads > 1 ends as the call with threads <= 1 does: the same files with
\* the same contents and the same mapping returned.
C37_ThreadsDoNotChangeChapters ==
    (call.op = "generate_all_chapters" /\ args.threads > 1 /\ pc = "returned") =>
        LET sequential == generate_all_chapters_sequential(call.section_files, call.outcomes)
        IN /\ ~sequential.raised
           /\ sequential.dir = files
           /\ DOMAIN sequential.ret = DOMAIN call.generated_chapters
           /\ \A c \in DOMAIN sequential.ret : sequential.ret[c] = call.generated_chapters[c]

(***************************************************************************)
(* The citation stage's `_cited` files                                     *)
(***************************************************************************)
\* C36: when the citation stage has returned success, every chapter file of
\* the folder has its `_cited` file beside it.
C36_EveryChapterCited ==
    (4 \in DOMAIN result /\ result[4] = "truthy") =>
        \A c \in CategorySet :
           Exists(files, ChapterFile(c)) => Exists(files, CitedFile(c))

(***************************************************************************)
(* Who writes which file while a pool runs                                 *)
(***************************************************************************)
\* The file a stage's task writes for its category or chapter.
TaskOutput(stage, task) ==
    CASE stage = 3 -> ChapterFile(task)
      [] stage = 4 -> CitedFile(task)
      [] stage = 5 -> WithFiguresFile(task)

\* The files written by a step.
Written == { f \in DOMAIN files' : f \notin DOMAIN files \/ files'[f] # files[f] }

\* C34: in the stages run by a pool, every file written by a step is written
\* either by the one task that ends in that step, as the file of its own
\* category or chapter, which is the file of no other task of the stage, or
\* by the stage's main thread once no task is left, and then it is a file no
\* task of the stage has written.
C34_OneWriterPerFile ==
    [][ (pc = "pool" /\ CurrentStage \in PoolStages) =>
           \A f \in Written :
              \/ \E i \in Running(pool) :
                    /\ pool'[i].state = "finished"
                    /\ \A j \in Running(pool) \ {i} : pool'[j].state = "running"
                    /\ f = TaskOutput(CurrentStage, pool[i].task)
                    /\ \A j \in (1..Len(pool)) \ {i} :
                          TaskOutput(CurrentStage, pool[j].task) # f
              \/ /\ PoolDrained(pool)
                 /\ pool' = pool
                 /\ \A j \in 1..Len(pool) :
                       pool[j].outcome \in {"ok", "copy"}
                           => TaskOutput(CurrentStage, pool[j].task) # f ]_vars

\* With several threads, two chapter tasks have written their files while a
\* third is running.
C34_Witness ==
    /\ pc = "pool" /\ CurrentStage = 3 /\ args.threads > 1
    /\ Running(pool) # {}
    /\ Cardinality({ i \in 1..Len(pool) : pool[i].outcome = "ok" }) >= 2
    /\ \A i \in 1..Len(pool) :
          pool[i].outcome = "ok" => Exists(files, ChapterFile(pool[i].task))

(***************************************************************************)
(* Termination of process_pdf                                              *)
(***************************************************************************)
\* Stage 2 is the next thing process_pdf does: RunClassification is enabled.
ClassificationDue == pc = "next" /\ NextStage(args, started) = 2

\* The steps of process_pdf and of its workers other than stage 2.
OtherSteps ==
    \/ Invoke
    \/ RunExtraction
    \/ StartChapters
    \/ FinishChapterTask
    \/ ReturnChapters
    \/ StartCitations
    \/ FinishCitationTask
    \/ ReturnCitations
    \/ StartFigures
    \/ FinishFigureTask
    \/ ReturnFigures
    \/ TaskStart
    \/ RunMetadata
    \/ RunCompile
    \/ Finish

\* Every external call returns or fails and every thread gets to run: a
\* step that can be taken is taken in the end.  This is weak fairness of the
\* steps; for stage 2 it is written with the enabling condition of
\* RunClassification spelled out.
SpecPipelineLive ==
    /\ SpecPipeline
    /\ WF_vars(OtherSteps)
    /\ ([]<>~ClassificationDue \/ []<><<RunClassification>>_vars)

\* C35: every run of process_pdf comes to its end, returned after its last
\* selected stage or raised at the stage that failed; no stage is left
\* waiting for its pool.
C35_ProcessPdfTerminates == <>(pc \in {"done", "raised"})

\* Run with several threads, the citation stage has failed after one of its
\* workers raised: every task had finished and process_pdf has raised.
C35_Witness ==
    /\ pc = "raised" /\ args.threads > 1 /\ CurrentStage = 4
    /\ PoolDrained(pool)
    /\ \E i \in 1..Len(pool) : pool[i].outcome = "exc"

(***************************************************************************)
(* CitationGenerator.process_chapters with threads > 1: the papers are     *)
(* gathered in the order the chapter tasks complete                        *)
(***************************************************************************)
CollectChapters == <<"introduction", "results">>

ChapterPaperLists == UNION { [1..n -> PaperPool] : n \in 0..MaxSentences }

\* citation_data["sentences"] of a chapter whose searches found these papers.
SentencesOf(papers) == [i \in 1..Len(papers) |-> papers[i].sentence]

\* The loop after the export: every chapter with citation data is rewritten.
RECURSIVE UpdateAllFrom(_, _, _, _)
UpdateAllFrom(dir, papers_of, i, bibtex_keys) ==
    IF i > Len(CollectChapters) THEN dir
    ELSE UpdateAllFrom(
             update_chapter_citations(dir, CollectChapters[i],
                                      SentencesOf(papers_of[CollectChapters[i]]), bibtex_keys),
             papers_of, i + 1, bibtex_keys)

\* process_chapters from `if not all_papers` on: the folder it leaves, the
\* key of every entry beside its paper, and its result.
export_and_update(dir, papers_of, all_papers) ==
    IF all_papers = <<>>
    THEN [dir |-> dir, assigned |-> {}, ret |-> FALSE]
    ELSE LET exported == export_bibtex(dir, all_papers)
         IN [dir |-> UpdateAllFrom(exported.dir, papers_of, 1, exported.citation_keys),
             assigned |-> { <<all_papers[i], exported.keys[i]>> : i \in 1..Len(all_papers) },
             ret |-> TRUE]

\* The analysis and the searches of both chapters are fixed; the pool runs
\* their tasks.
InitCollect ==
    /\ FiguresIdle
    /\ \E papers_of \in [Range(CollectChapters) -> ChapterPaperLists], text \in CitableTexts :
         /\ files = [n \in { ChapterFile(c) : c \in Range(CollectChapters) } |-> text]
         /\ call = [op |-> "process_chapters", done |-> FALSE, papers_of |-> papers_of,
                    all_papers |-> <<>>, assigned |-> {}, ret |-> FALSE]
    /\ args = [run_all |-> FALSE, flags |-> {4}, threads |-> MaxThreads]
    /\ pc = "pool" /\ started = <<4>> /\ pool = NewPool(CollectChapters) /\ result = <<>>

\* A task completes; as_completed hands its papers to
\* `all_papers.extend(papers)`.
CollectCompleted ==
    /\ call.op = "process_chapters" /\ pc = "pool"
    /\ \E i \in Running(pool) :
         /\ pool' = Finished(pool, i, IF call.papers_of[pool[i].task] = <<>>
                                      THEN "nopapers" ELSE "papers")
         /\ call' = [call EXCEPT !.all_papers = @ \o call.papers_of[pool[i].task]]
    /\ UNCHANGED <<files, args, pc, started, result, figure_vars>>

\* The pool is left: references.bib is exported and the chapters rewritten.
ExportAndUpdate ==
    /\ call.op = "process_chapters" /\ pc = "pool" /\ PoolDrained(pool)
    /\ LET r == export_and_update(files, call.papers_of, call.all_papers)
       IN /\ files' = r.dir
          /\ call' = [call EXCEPT !.done = TRUE, !.assigned = r.assigned, !.ret = r.ret]
    /\ pc' = "returned"
    /\ UNCHANGED <<args, started, pool, result, figure_vars>>

NextCollect == TaskStart \/ CollectCompleted \/ ExportAndUpdate

SpecCollect == InitCollect /\ [][NextCollect]_vars

\* C38: whatever order the chapter tasks complete in, every paper gets the
\* bibliography key it gets when the tasks complete in the order of their
\* submission, so references.bib and the markers name the papers alike.
C38_KeysIndependentOfCompletionOrder ==
    (call.op = "process_chapters" /\ call.done) =>
        LET submitted == call.papers_of["introduction"] \o call.papers_of["results"]
            keys == export_bibtex(EmptyDir, submitted).keys
        IN call.assigned = { <<submitted[i], keys[i]>> : i \in 1..Len(submitted) }

\* ------------------------------------------------------------------------
\* The web application (app.py): the jobs dictionary, the background thread
\* of every job and the request handlers that read the dictionary.
\*
\* `call.jobs` is the module-level dictionary `jobs`, `call.threads` holds
\* the position of every job's background thread, `call.response` is the
\* answer of the last request, and `files` holds the result archives that
\* exist. Every assignment to a field of a job is a step of its own: a
\* request handler runs in another thread and can read the dictionary
\* between any two of them.

MaxJobs == 2
JobIds == 1..MaxJobs

\* The seven steps of process_pdf_background.
WebSteps == 7

\* os.path.join('results', job_id, 'thesis_package.zip'): one archive per job.
zip_path(job_id) == <<"results", job_id, "thesis_package.zip">>

\* The thread of a job that has not been uploaded, and of one that returned.
NoThread == [at |-> "none", step |-> 0]
ThreadEnded == [at |-> "end", step |-> 0]

NoResponse == [handler |-> "none", job_id |-> 0, kind |-> "none"]

\* `jobs[job_id][field] = value`.
SetJob(job_id, field, value) ==
    [call EXCEPT !.jobs = [@ EXCEPT ![job_id] = [@ EXCEPT ![field] = value]]]

\* The thread of job_id moves to position at.
MoveThread(c, job_id, at, step) ==
    [c EXCEPT !.threads = [@ EXCEPT ![job_id] = [at |-> at, step |-> step]]]

InitWeb ==
    /\ FiguresIdle
    /\ PipelineIdle
    /\ files = EmptyDir
    /\ call = [op |-> "web", jobs |-> [j \in {} |-> 0],
               threads |-> [j \in JobIds |-> NoThread], response |-> NoResponse]

\* upload_file: the job is registered and its thread started.
upload_file ==
    /\ call.op = "web"
    /\ \E job_id \in JobIds \ DOMAIN call.jobs :
         call' = [call EXCEPT
                    !.jobs = [j \in DOMAIN @ \cup {job_id} |->
                                IF j = job_id
                                THEN [status |-> "processing", message |-> <<"Job started", 0>>,
                                      result_path |-> None]
                                ELSE @[j]],
                    !.threads = [@ EXCEPT ![job_id] = [at |-> "setup", step |-> 0]],
                    !.response = [handler |-> "upload_file", job_id |-> job_id,
                                  kind |-> "redirect"]]
    /\ UNCHANGED <<files, pipeline_vars, figure_vars>>

\* The debug folder, the log handler and create_ai_api: they touch no job
\* field; an exception goes to the outer handler.
ThreadSetup ==
    /\ call.op = "web"
    /\ \E job_id \in JobIds, raised \in BOOLEAN :
         /\ call.threads[job_id].at = "setup"
         /\ call' = IF raised THEN MoveThread(call, job_id, "outer_except_status", 0)
                    ELSE MoveThread(call, job_id, "announce", 1)
    /\ UNCHANGED <<files, pipeline_vars, figure_vars>>

\* `jobs[job_id]['message'] = "Step n: ..."`.
ThreadAnnounce ==
    /\ call.op = "web"
    /\ \E job_id \in JobIds :
         LET t == call.threads[job_id]
         IN /\ t.at = "announce"
            /\ call' = MoveThread(SetJob(job_id, "message", <<"Step", t.step>>),
                                  job_id, "run", t.step)
    /\ UNCHANGED <<files, pipeline_vars, figure_vars>>

\* The step runs. A truthy result is followed by update_status_from_logs,
\* which writes the latest log line into the message; a falsy result raises
\* the RuntimeError of the step, an exception of the stage goes the same way.
ThreadRunStep ==
    /\ call.op = "web"
    /\ \E job_id \in JobIds, succeeded \in BOOLEAN :
         LET t == call.threads[job_id]
         IN /\ t.at = "run"
            /\ call' = IF ~succeeded
                       THEN MoveThread(call, job_id, "inner_except_message", t.step)
                       ELSE MoveThread(SetJob(job_id, "message", <<"log", t.step>>), job_id,
                                       IF t.step = WebSteps THEN "all_steps" ELSE "announce",
                                       IF t.step = WebSteps THEN 0 ELSE t.step + 1)
    /\ UNCHANGED <<files, pipeline_vars, figure_vars>>

\* `jobs[job_id]['message'] = "All steps completed successfully!"`.
ThreadAllSteps ==
    /\ call.op = "web"
    /\ \E job_id \in JobIds :
         /\ call.threads[job_id].at = "all_steps"
         /\ call' = MoveThread(SetJob(job_id, "message", <<"All steps completed successfully!", 0>>),
                               job_id, "zip", 0)
    /\ UNCHANGED <<files, pipeline_vars, figure_vars>>

\* The inner handler: the message, then the status, then return.
ThreadInnerExceptMessage ==
    /\ call.op = "web"
    /\ \E job_id \in JobIds :
         LET t == call.threads[job_id]
         IN /\ t.at = "inner_except_message"
            /\ call' = MoveThread(SetJob(job_id, "message", <<"Error", t.step>>),
                                  job_id, "inner_except_status", 0)
    /\ UNCHANGED <<files, pipeline_vars, figure_vars>>

ThreadInnerExceptStatus ==
    /\ call.op = "web"
    /\ \E job_id \in JobIds :
         /\ call.threads[job_id].at = "inner_except_status"
         /\ call' = [SetJob(job_id, "status", "failed") EXCEPT
                        !.threads = [@ EXCEPT ![job_id] = ThreadEnded]]
    /\ UNCHANGED <<files, pipeline_vars, figure_vars>>

\* The archive is written; an OSError goes to the outer handler.
ThreadZip ==
    /\ call.op = "web"
    /\ \E job_id \in JobIds, raised \in BOOLEAN :
         /\ call.threads[job_id].at = "zip"
         /\ IF raised
            THEN /\ call' = MoveThread(call, job_id, "outer_except_status", 0)
                 /\ files' = files
            ELSE /\ call' = MoveThread(call, job_id, "set_status", 0)
                 /\ files' = [p \in DOMAIN files \cup {zip_path(job_id)} |->
                                IF p = zip_path(job_id) THEN <<"zip">> ELSE files[p]]
    /\ UNCHANGED <<pipeline_vars, figure_vars>>

\* `jobs[job_id]['status'] = 'completed'`.
ThreadSetStatus ==
    /\ call.op = "web"
    /\ \E job_id \in JobIds :
         /\ call.threads[job_id].at = "set_status"
         /\ call' = MoveThread(SetJob(job_id, "status", "completed"),
                               job_id, "set_result_path", 0)
    /\ UNCHANGED <<files, pipeline_vars, figure_vars>>

\* `jobs[job_id]['result_path'] = zip_path`.
ThreadSetResultPath ==
    /\ call.op = "web"
    /\ \E job_id \in JobIds :
         /\ call.threads[job_id].at = "set_result_path"
         /\ call' = MoveThread(SetJob(job_id, "result_path", zip_path(job_id)),
                               job_id, "set_message", 0)
    /\ UNCHANGED <<files, pipeline_vars, figure_vars>>

\* `jobs[job_id]['message'] = 'Processing completed successfully!'`.
ThreadSetMessage ==
    /\ call.op = "web"
    /\ \E job_id \in JobIds :
         /\ call.threads[job_id].at = "set_message"
         /\ call' = [SetJob(job_id, "message", <<"Processing completed successfully!", 0>>) EXCEPT
                        !.threads = [@ EXCEPT ![job_id] = ThreadEnded]]
    /\ UNCHANGED <<files, pipeline_vars, figure_vars>>

\* The outer handler: the status, then the message.
ThreadOuterExceptStatus ==
    /\ call.op = "web"
    /\ \E job_id \in JobIds :
         /\ call.threads[job_id].at = "outer_except_status"
         /\ call' = MoveThread(SetJob(job_id, "status", "failed"),
                               job_id, "outer_except_message", 0)
    /\ UNCHANGED <<files, pipeline_vars, figure_vars>>

ThreadOuterExceptMessage ==
    /\ call.op = "web"
    /\ \E job_id \in JobIds :
         /\ call.threads[job_id].at = "outer_except_message"
         /\ call' = [SetJob(job_id, "message", <<"Error", 0>>) EXCEPT
                        !.threads = [@ EXCEPT ![job_id] = ThreadEnded]]
    /\ UNCHANGED <<files, pipeline_vars, figure_vars>>

\* job_status and api_job_status answer with the job as it is.
api_job_status ==
    /\ call.op = "web"
    /\ \E job_id \in JobIds :
         call' = [call EXCEPT !.response =
                     [handler |-> "api_job_status", job_id |-> job_id,
                      kind |-> IF job_id \notin DOMAIN call.jobs THEN "404" ELSE "json"]]
    /\ UNCHANGED <<files, pipeline_vars, figure_vars>>

\* What download_results answers: os.path.exists(None) raises a TypeError,
\* which the framework turns into the answer 500.
download_answer(jobs, fs, job_id) ==
    IF job_id \notin DOMAIN jobs \/ jobs[job_id].status # "completed" THEN "redirect"
    ELSE IF jobs[job_id].result_path = None THEN "500"
    ELSE IF jobs[job_id].result_path \notin DOMAIN fs THEN "redirect"
    ELSE "send_file"

download_results ==
    /\ call.op = "web"
    /\ \E job_id \in JobIds :
         call' = [call EXCEPT !.response =
                     [handler |-> "download_results", job_id |-> job_id,
                      kind |-> download_answer(call.jobs, files, job_id)]]
    /\ UNCHANGED <<files, pipeline_vars, figure_vars>>

NextWeb ==
    \/ upload_file \/ ThreadSetup \/ ThreadAnnounce \/ ThreadRunStep \/ ThreadAllSteps
    \/ ThreadInnerExceptMessage \/ ThreadInnerExceptStatus \/ ThreadZip
    \/ ThreadSetStatus \/ ThreadSetResultPath \/ ThreadSetMessage
    \/ ThreadOuterExceptStatus \/ ThreadOuterExceptMessage
    \/ api_job_status \/ download_results

SpecWeb == InitWeb /\ [][NextWeb]_vars

\* C39: under every interleaving of a job's thread with the request
\* handlers, a job whose status is 'completed' has its result_path set, so
\* that download_results never reads an unset path.
C39_CompletedHasResultPath ==
    call.op = "web" =>
        \A job_id \in DOMAIN call.jobs :
            call.jobs[job_id].status = "completed" =>
                call.jobs[job_id].result_path # None

\* The other half of the sentence: a status that is 'completed' or 'failed'
\* stays what it is.
TerminalStatusStays ==
    [][call.op = "web" =>
         \A job_id \in DOMAIN call.jobs :
             call.jobs[job_id].status \in {"completed", "failed"} =>
                 call'.jobs[job_id].status = call.jobs[job_id].status]_vars

\* download_results never answers 500.
DownloadNeverFails == call.op = "web" => call.response.kind # "500"

\* ------------------------------------------------------------------------
\* Stage runs repeated on one working directory: process_pdf called again
\* and again with a single stage flag (--add-citations, --add-figures,
\* --compile-thesis) on the folder an earlier run has left.
\*
\* What a citation run writes depends on what the searches of that run
\* find; `key` stands for the papers found in the run, so that two runs can
\* write different `_cited` files.

MaxAnswers == 2
AnswerKeys == SubSeq(<<"a", "b", "c", "d">>, 1, MaxAnswers)

\* The marker a citation run with the papers `key` puts into a chapter.
CitationMarkerOf(key) == <<"[", "@", key, "]">>

\* The chapters of the folder the runs are repeated on.
RerunChapters == <<"introduction", "methods">>

\* The folder after the chapters have been generated from a deck of one page.
RerunFolder ==
    WriteFile(WriteFile(WriteFile(EmptyDir, ImageFile(1), <<"j">>),
                        ChapterFile("introduction"), ChapterText("introduction")),
              ChapterFile("methods"), ChapterText("methods"))

\* The tasks of the citation stage, one after the other: a chapter outside
\* citation_chapters is copied to its `_cited` file at once.
RECURSIVE CopyChapters(_, _, _)
CopyChapters(dir, chapter_files, i) ==
    IF i > Len(chapter_files) THEN dir
    ELSE CopyChapters(
            IF FileStem(chapter_files[i]) \notin citation_chapters
            THEN WriteFile(dir, CitedFile(chapter_files[i]),
                           ReadText(dir[ChapterFile(chapter_files[i])]))
            ELSE dir,
            chapter_files, i + 1)

\* _update_chapter_citations on every chapter that has citation data.
RECURSIVE UpdateCited(_, _, _, _, _)
UpdateCited(dir, chapter_files, outcome_of, key, i) ==
    IF i > Len(chapter_files) THEN dir
    ELSE UpdateCited(
            IF outcome_of[chapter_files[i]] \in {"papers", "nopapers"}
            THEN WriteFile(dir, CitedFile(chapter_files[i]),
                           ReadText(dir[ChapterFile(chapter_files[i])]) \o CitationMarkerOf(key))
            ELSE dir,
            chapter_files, outcome_of, key, i + 1)

\* CitationGenerator.process_chapters(debug_folder, threads=1).
citation_stage(dir, outcome_of, key) ==
    LET chapter_files == ChaptersGenerated(dir)
        copied == CopyChapters(dir, chapter_files, 1)
    IN IF chapter_files = <<>> THEN [dir |-> dir, ret |-> FALSE]
       ELSE IF \A i \in 1..Len(chapter_files) : outcome_of[chapter_files[i]] # "papers"
       THEN [dir |-> copied, ret |-> FALSE]
       ELSE [dir |-> UpdateCited(WriteFile(copied, BibFile, BibText),
                                 chapter_files, outcome_of, key, 1),
             ret |-> TRUE]

\* The tasks of the figure stage: the `_with_figures` file is written from
\* the `_cited` file that is there when the task runs.
RECURSIVE WriteWithFigures(_, _, _, _)
WriteWithFigures(dir, chapter_files, outcome_of, i) ==
    IF i > Len(chapter_files) THEN dir
    ELSE WriteWithFigures(
            IF outcome_of[chapter_files[i]] = "ok"
            THEN WriteFile(dir, WithFiguresFile(chapter_files[i]),
                           dir[CitedFile(chapter_files[i])] \o FigureMarker)
            ELSE dir,
            chapter_files, outcome_of, i + 1)

\* FigureGenerator.process_chapters(debug_folder, threads=1).
figure_stage(dir, outcome_of) ==
    LET chapter_files == ChaptersCited(dir)
    IN IF chapter_files = <<>> \/ figure_images(dir) = {}
       THEN [dir |-> dir, ret |-> FALSE]
       ELSE [dir |-> WriteWithFigures(dir, chapter_files, outcome_of, 1), ret |-> TRUE]

RerunCitationOutcomes(category) ==
    IF FileStem(category) \in citation_chapters THEN {"papers", "nopapers", "none"} ELSE {"copy"}

InitRerun ==
    /\ FiguresIdle
    /\ PipelineIdle
    /\ files = RerunFolder
    /\ call = [op |-> "process_pdf", stage |-> 0, ret |-> TRUE, key |-> "",
               chapter_files |-> <<>>, runs |-> 0]

MaxRuns == 4

\* process_pdf(pdf_file, add_citations=True).
RunAddCitations ==
    /\ call.op = "process_pdf" /\ call.runs < MaxRuns
    /\ \E key \in Range(AnswerKeys),
          outcome_of \in [Range(RerunChapters) -> {"papers", "nopapers", "none", "copy"}] :
         /\ \A c \in Range(RerunChapters) : outcome_of[c] \in RerunCitationOutcomes(c)
         /\ LET r == citation_stage(files, outcome_of, key)
            IN /\ files' = r.dir
               /\ call' = [call EXCEPT !.stage = 4, !.ret = r.ret, !.key = key,
                                       !.chapter_files = <<>>, !.runs = @ + 1]
    /\ UNCHANGED <<pipeline_vars, figure_vars>>

\* process_pdf(pdf_file, add_figures=True).
RunAddFigures ==
    /\ call.op = "process_pdf" /\ call.runs < MaxRuns
    /\ \E outcome_of \in [Range(RerunChapters) -> FigureOutcomes] :
         LET r == figure_stage(files, outcome_of)
         IN /\ files' = r.dir
            /\ call' = [call EXCEPT !.stage = 5, !.ret = r.ret, !.key = "",
                                    !.chapter_files = <<>>, !.runs = @ + 1]
    /\ UNCHANGED <<pipeline_vars, figure_vars>>

\* process_pdf(pdf_file, compile_thesis=True): the chapter files the
\* compiler selects.
RunCompileThesis ==
    /\ call.op = "process_pdf" /\ call.runs < MaxRuns
    /\ call' = [call EXCEPT !.stage = 7, !.ret = get_chapter_files(files) # <<>>, !.key = "",
                            !.chapter_files = get_chapter_files(files), !.runs = @ + 1]
    /\ UNCHANGED <<files, pipeline_vars, figure_vars>>

NextRerun == RunAddCitations \/ RunAddFigures \/ RunCompileThesis

SpecRerun == InitRerun /\ [][NextRerun]_vars

\* C40: after any sequence of stage runs on one folder, a `_with_figures`
\* file the compiler selects is the one the figure stage derives from the
\* `_cited` file the folder holds now.
C40_WithFiguresFromCurrentCited ==
    (call.op = "process_pdf" /\ call.stage = 7) =>
        \A c \in CategorySet :
            WithFiguresFile(c) \in Range(call.chapter_files) =>
                /\ Exists(files, CitedFile(c))
                /\ files[WithFiguresFile(c)] = files[CitedFile(c)] \o FigureMarker

====
